---------------------------- MODULE Spec2Model ----------------------------
(***************************************************************************)
(* A model of services/TwilioSendGrid.js: the three process-wide statics,   *)
(* the remote marketing API as the service sees it (list roster, requests  *)
(* and their responses), and each public operation as the sequence of its  *)
(* await points.  The code between two awaits runs atomically (Node's      *)
(* single thread), so one action is one remote request together with the   *)
(* synchronous code that follows its response.                             *)
(***************************************************************************)
EXTENDS Integers, Sequences, FiniteSets, TLC

VARIABLES
    registry,       \* EMAIL_TEMPLATE_MAP, the module-level template registry
    templateCache,  \* static templateCache: <<>> (null) or <<registry>>
    fieldMapCache,  \* static fieldMapCache: <<>> (null) or <<map>>
    listCache,      \* static listCache: <<>> (null) or <<roster snapshot>>
    built,          \* the field-map objects the reduce of line 83 has made
    roster,         \* remote: the lists a GET /v3/marketing/lists shows
    pending,        \* remote: lists created but not yet visible to reads
    nextId,         \* remote: id the next created list gets
    fieldDefs,      \* remote: the custom field definitions
    pc,             \* per invocation: the await point it stands at
    op,             \* per invocation: the operation and its arguments
    loc,            \* per invocation: the operation's local variables
    retry,          \* per invocation: stack of live _withRetry frames
    sleep,          \* per invocation: <<>> or <<the pending setTimeout>>
    out,            \* per invocation: how the operation ended
    log,            \* per invocation: the remote requests issued, in order,
                    \*   each with the response it got
    waits,          \* per invocation: the setTimeout delays that elapsed
    hist,           \* the invocations that completed, in order
    budget          \* invocations the caller may still start

vars == <<registry, templateCache, fieldMapCache, listCache, built, roster, pending,
          nextId, fieldDefs, pc, op, loc, retry, sleep, out, log, waits, hist,
          budget>>

statics == <<registry, templateCache, fieldMapCache, listCache, built>>
remote == <<roster, pending, nextId, fieldDefs>>

\* The invocations: "p1" alone in the sequential specifications.
Procs == {"p1", "p2"}

---------------------------------------------------------------------------
(* Bounds of the model *)

\* Lists the remote may hold (visible and pending together).
MaxLists == 3
\* Calls of the cache operations in a row.
MaxCalls == 3
\* Longest address tried exhaustively.
MaxEmailLen == 5
\* Longest roster the remote starts with.
MaxInitLists == 2

---------------------------------------------------------------------------
(* Program constants *)

DefaultRetries == 3
DefaultDelay == 500
DefaultMaxDelay == 3000
PollRetries == 5
PollDelay == 500
PollMaxDelay == 1000
SettleDelay == 1000
RateLimitStatus == 429

---------------------------------------------------------------------------
(* Values *)

Uncapped(a, b) == a
\* Math.min
Min2(a, b) == IF a <= b THEN a ELSE b

RECURSIVE Join(_, _)
\* Array.prototype.join
Join(s, sep) ==
    IF s = <<>> THEN ""
    ELSE IF Len(s) = 1 THEN s[1]
    ELSE s[1] \o sep \o Join(Tail(s), sep)

\* a TypeError raised by the runtime
TypeError(message) ==
    [name |-> "TypeError", message |-> message, hasResponse |-> FALSE,
     statusCode |-> 0, hasErrors |-> FALSE, errors |-> <<>>]

\* new Error(message): no response attached
Error(message) ==
    [name |-> "Error", message |-> message, hasResponse |-> FALSE,
     statusCode |-> 0, hasErrors |-> FALSE, errors |-> <<>>]

\* What a failed sgClient.request / sgMail.send rejects with.
RateLimited ==
    [name |-> "ResponseError", message |-> "Too Many Requests",
     hasResponse |-> TRUE, statusCode |-> RateLimitStatus,
     hasErrors |-> TRUE, errors |-> <<"too many requests">>]
BadRequest ==
    [name |-> "ResponseError", message |-> "Bad Request",
     hasResponse |-> TRUE, statusCode |-> 400,
     hasErrors |-> TRUE, errors |-> <<"invalid field", "quota reached">>]
NetworkError ==
    [name |-> "Error", message |-> "socket hang up", hasResponse |-> FALSE,
     statusCode |-> 0, hasErrors |-> FALSE, errors |-> <<>>]
RemoteErrors == {RateLimited, BadRequest, NetworkError}

\* A response: resolved with a body, or rejected with an error.
Ok(body) == [ok |-> TRUE, body |-> body]
Failed(err) == [ok |-> FALSE, err |-> err]

NoOut == [k |-> "none"]
Returned(v) == [k |-> "return", v |-> v]
Thrown(e) == [k |-> "throw", e |-> e]

---------------------------------------------------------------------------
(* _isValidEmail: an address is the sequence of its characters *)

Whitespace == {" ", "\t"}

\* `${email}`
Str(chars) == Join(chars, "")

\* /^[^\s@]+@[^\s@]+\.[^\s@]+$/ : no whitespace, one "@" with something
\* before it, and after it a "." with something on both sides
AcceptAnyAt(e) == \E i \in 1..Len(e) : e[i] = "@"
IsValidEmail(e) ==
    LET ats == {i \in 1..Len(e) : e[i] = "@"}
    IN  /\ \A i \in 1..Len(e) : e[i] \notin Whitespace
        /\ Cardinality(ats) = 1
        /\ LET a == CHOOSE i \in ats : TRUE
           IN  /\ a > 1
               /\ \E d \in (a + 2)..(Len(e) - 1) : e[d] = "."

GoodEmail == <<"a", "@", "b", ".", "c">>
OtherGoodEmail == <<"x", ".", "y", "@", "b", ".", "c", ".", "d">>
NoAtEmail == <<"a", "b", ".", "c">>
NoDotEmail == <<"a", "@", "b", "c">>
SpacedEmail == <<"a", " ", "@", "b", ".", "c">>

---------------------------------------------------------------------------
(* config/emailTemplatesMap.js *)

\* A template: customFieldTypes is <<>> when the property is absent.
Template(key, templateId, requiredFields, customFieldTypes) ==
    [key |-> key, templateId |-> templateId, requiredFields |-> requiredFields,
     customFieldTypes |-> customFieldTypes]

\* EmailTemplateMap, in the order of its keys
EmailTemplateMap ==
    << Template("new-order-email", "d-1234567890abcdef1234567890abcdef",
                <<"order_id", "user_name", "items">>,
                <<[order_id |-> "string", user_name |-> "string", items |-> "array"]>>),
       Template("password-reset", "d-abcdef1234567890abcdef1234567890",
                <<"reset_link", "user_email">>,
                <<[reset_link |-> "url", user_email |-> "email"]>>),
       Template("creator-broadcast", "d-broadcast00001234567890abc",
                <<"creator_name", "message_body">>,
                <<[creator_name |-> "string", message_body |-> "html"]>>) >>

\* Names every plain object inherits from Object.prototype: obj[key] finds
\* them (a function, truthy) although they are not keys of obj.
ObjectPrototypeKeys == {"constructor", "toString"}

\* obj[key] on a plain object: <<>> (undefined), <<own value>> or
\* <<"[inherited]">>.
GetOwnOnly(obj, key) == IF key \in DOMAIN obj THEN <<obj[key]>> ELSE <<>>
Get(obj, key) ==
    IF key \in DOMAIN obj THEN <<obj[key]>>
    ELSE IF key \in ObjectPrototypeKeys THEN <<"[inherited]">>
    ELSE <<>>

\* EMAIL_TEMPLATE_MAP[templateKey]
GetTemplate(reg, key) ==
    LET idx == {i \in 1..Len(reg) : reg[i].key = key}
    IN  IF idx # {} THEN [k |-> "own", t |-> reg[CHOOSE i \in idx : TRUE]]
        ELSE IF key \in ObjectPrototypeKeys THEN [k |-> "inherited"]
        ELSE [k |-> "undefined"]

TemplateKeys(reg) == {reg[i].key : i \in 1..Len(reg)}

\* loadEmailTemplateConfig: the value returned (and cached)
LoadEmailTemplateConfig(reg, tc) == IF tc = <<>> THEN reg ELSE tc[1]

\* for (const [key, type] of Object.entries(t.customFieldTypes)) acc[key] = type
KeepFirstType(acc, cft) ==
    [k \in DOMAIN acc \cup DOMAIN cft |-> IF k \in DOMAIN acc THEN acc[k] ELSE cft[k]]
AssignTypes(acc, cft) ==
    [k \in DOMAIN acc \cup DOMAIN cft |-> IF k \in DOMAIN cft THEN cft[k] ELSE acc[k]]

\* a reduce that passes over a template without customFieldTypes
RECURSIVE SkipUntyped(_, _)
SkipUntyped(ts, acc) ==
    IF ts = <<>> THEN [ok |-> TRUE, map |-> acc]
    ELSE IF Head(ts).customFieldTypes = <<>> THEN SkipUntyped(Tail(ts), acc)
    ELSE SkipUntyped(Tail(ts), AssignTypes(acc, Head(ts).customFieldTypes[1]))

RECURSIVE ReduceTemplates(_, _)
\* Object.values(map).reduce(..., acc): the map, or the error thrown at the
\* first template without customFieldTypes
ReduceTemplates(ts, acc) ==
    IF ts = <<>> THEN [ok |-> TRUE, map |-> acc]
    ELSE IF Head(ts).customFieldTypes = <<>>
    THEN [ok |-> FALSE,
          err |-> Error("Missing customFieldTypes in template config for "
                        \o Head(ts).templateId)]
    ELSE ReduceTemplates(Tail(ts), AssignTypes(acc, Head(ts).customFieldTypes[1]))

\* buildFieldTypeFromEmailTemplateConfig: the result, the two caches after,
\* and the count of field-map objects made (the reduce makes one, kept or not)
AlwaysRebuild(reg, tc, fmc, n) ==
    LET map == LoadEmailTemplateConfig(reg, tc)
        r == ReduceTemplates(map, <<>>)
    IN  IF r.ok
        THEN [ok |-> TRUE, map |-> r.map, templateCache |-> <<map>>,
              fieldMapCache |-> <<r.map>>, built |-> n + 1]
        ELSE [ok |-> FALSE, err |-> r.err, templateCache |-> <<map>>,
              fieldMapCache |-> <<>>, built |-> n + 1]
BuildFieldType(reg, tc, fmc, n) ==
    IF fmc # <<>>
    THEN [ok |-> TRUE, map |-> fmc[1], templateCache |-> tc, fieldMapCache |-> fmc,
          built |-> n]
    ELSE LET map == LoadEmailTemplateConfig(reg, tc)
             r == ReduceTemplates(map, <<>>)
         IN  IF r.ok
             THEN [ok |-> TRUE, map |-> r.map, templateCache |-> <<map>>,
                   fieldMapCache |-> <<r.map>>, built |-> n + 1]
             ELSE [ok |-> FALSE, err |-> r.err, templateCache |-> <<map>>,
                   fieldMapCache |-> <<>>, built |-> n + 1]

---------------------------------------------------------------------------
(* Sender lists *)

SenderIds == {"1", "2"}

FormatWithoutPrefix(senderId) == senderId \o "_list"
\* _formatListNameForSender
FormatListNameForSender(senderId) == "sender_" \o senderId \o "_list"

ListNames == {FormatListNameForSender(s) : s \in SenderIds}

\* lists.find((l) => l.name === listName): <<>> (undefined) or <<the first>>
FindLast(lists, listName) ==
    LET idx == {i \in 1..Len(lists) : lists[i].name = listName}
    IN  IF idx = {} THEN <<>>
        ELSE <<lists[CHOOSE i \in idx : \A j \in idx : j <= i]>>
FindByName(lists, listName) ==
    LET idx == {i \in 1..Len(lists) : lists[i].name = listName}
    IN  IF idx = {} THEN <<>>
        ELSE <<lists[CHOOSE i \in idx : \A j \in idx : i <= j]>>

HasName(lists, listName) == \E i \in 1..Len(lists) : lists[i].name = listName

\* The rosters the remote may start with: ids by position.
NameSeqs == UNION {[1..n -> ListNames] : n \in 0..MaxInitLists}
InitRosters == {[i \in 1..Len(ns) |-> [id |-> i, name |-> ns[i]]] : ns \in NameSeqs}

---------------------------------------------------------------------------
(* _withRetry *)

RetryFrame(retries, delay, maxDelay) ==
    [attempt |-> 1, retries |-> retries, delay |-> delay, maxDelay |-> maxDelay]
DefaultFrame == RetryFrame(DefaultRetries, DefaultDelay, DefaultMaxDelay)
PollFrameOneMore == RetryFrame(PollRetries + 1, PollDelay, PollMaxDelay)
PollFrame == RetryFrame(PollRetries, PollDelay, PollMaxDelay)

\* err.response?.statusCode === 429
IsRateLimit(err) == err.hasResponse /\ err.statusCode = RateLimitStatus

\* The catch block of _withRetry: rethrow, or wait and go round again.
RetryAnyError(fr, err) ==
    IF fr.attempt = fr.retries
    THEN [rethrow |-> TRUE, waitTime |-> 0]
    ELSE [rethrow |-> FALSE,
          waitTime |-> Min2(fr.delay * fr.attempt, fr.maxDelay)]
NeverRetry(fr, err) == [rethrow |-> TRUE, waitTime |-> 0]
WithRetryCatch(fr, err) ==
    IF ~IsRateLimit(err) \/ fr.attempt = fr.retries
    THEN [rethrow |-> TRUE, waitTime |-> 0]
    ELSE [rethrow |-> FALSE,
          waitTime |-> Min2(fr.delay * fr.attempt, fr.maxDelay)]

NextAttempt(fr) == [fr EXCEPT !.attempt = fr.attempt + 1]
Timer(ms, by) == <<[ms |-> ms, by |-> by]>>

---------------------------------------------------------------------------
(* Control: c is an invocation's control record [pc, loc, retry, sleep, out] *)

Cur(p) == [pc |-> pc[p], loc |-> loc[p], retry |-> retry[p],
           sleep |-> sleep[p], out |-> out[p]]

SetCtl(p, c) ==
    /\ pc' = [pc EXCEPT ![p] = c.pc]
    /\ loc' = [loc EXCEPT ![p] = c.loc]
    /\ retry' = [retry EXCEPT ![p] = c.retry]
    /\ sleep' = [sleep EXCEPT ![p] = c.sleep]
    /\ out' = [out EXCEPT ![p] = c.out]

\* The operation ends: a return or an uncaught throw.
Done(c, o) == [c EXCEPT !.pc = "done", !.sleep = <<>>, !.out = o]

Pop(s) == SubSeq(s, 1, Len(s) - 1)
Top(s) == s[Len(s)]
Push(s, fr) == Append(s, fr)

Request(method, url, body) == [method |-> method, url |-> url, body |-> body]
NoBody == [none |-> TRUE]

Issue(p, rq, rs) == log' = [log EXCEPT ![p] = Append(@, [rq |-> rq, rs |-> rs])]

---------------------------------------------------------------------------
(* ensureSenderListExists, ensureListExistsByName, fetchAllSenderLists *)

\* The outer _withRetry(poll, 5, 500, 1000) catches what poll threw; what it
\* rethrows lands in the catch of ensureSenderListExists.
PollThrow(c, o, err) ==
    LET fr == Top(c.retry)
        d == WithRetryCatch(fr, err)
    IN  IF d.rethrow
        THEN Done(c, Thrown(Error("List creation failed: " \o o.listName)))
        ELSE [c EXCEPT !.retry = Push(Push(Pop(c.retry), NextAttempt(fr)), DefaultFrame),
                       !.sleep = Timer(d.waitTime, "poll")]

\* ensureListExistsByName returns list: to the caller, or on into the
\* verification of ensureSenderListExists.
ElbnReturn(c, o, list) ==
    IF o.name = "ensureListExistsByName"
    THEN Done(c, Returned(list))
    ELSE [c EXCEPT !.pc = "poll_fetch",
                   !.loc = [c.loc EXCEPT !.list = <<list>>],
                   !.retry = <<PollFrame, DefaultFrame>>]

\* if (!list): the create is skipped when the first fetch shows the name
CreateAlways(found) == FALSE
SkipCreate(found) == found # <<>>

\* The code that follows a successful GET /v3/marketing/lists at each site;
\* c has the fetch's _withRetry frame popped already.

AfterFetch(c, o, lists) ==
    LET found == FindByName(lists, o.listName)
    IN  CASE c.pc = "elbn_fetch1" ->
               IF SkipCreate(found)
               THEN ElbnReturn([c EXCEPT !.loc = [c.loc EXCEPT !.lists = <<lists>>]],
                               o, found[1])
               ELSE [c EXCEPT !.pc = "elbn_create",
                              !.loc = [c.loc EXCEPT !.lists = <<lists>>],
                              !.retry = Push(c.retry, DefaultFrame)]
          [] c.pc = "elbn_fetch2" ->
               IF found # <<>>
               THEN ElbnReturn([c EXCEPT !.loc = [c.loc EXCEPT !.newLists = <<lists>>]],
                               o, found[1])
               ELSE Done([c EXCEPT !.loc = [c.loc EXCEPT !.newLists = <<lists>>]],
                         Thrown(Error("List creation failed after retry: "
                                      \o o.listName)))
          [] c.pc = "fetch_lists" -> Done(c, Returned(lists))
          [] c.pc = "poll_fetch" ->
               IF found # <<>>
               THEN Done([c EXCEPT !.loc = [c.loc EXCEPT !.polled = <<lists>>]],
                         Returned(found[1]))
               ELSE PollThrow([c EXCEPT !.loc = [c.loc EXCEPT !.polled = <<lists>>]],
                              o, Error("List not yet verified"))

\* A request inside _withRetry failed with err: the frame on top decides.
\* A rethrow leaves ensureListExistsByName uncaught (it has no handler, and
\* ensureSenderListExists calls it outside its try); in poll it reaches the
\* outer _withRetry.
AfterRetriedError(c, o, err) ==
    LET fr == Top(c.retry)
        d == WithRetryCatch(fr, err)
    IN  IF ~d.rethrow
        THEN [c EXCEPT !.retry = Push(Pop(c.retry), NextAttempt(fr)),
                       !.sleep = Timer(d.waitTime, "retry")]
        ELSE IF c.pc = "poll_fetch"
        THEN PollThrow([c EXCEPT !.retry = Pop(c.retry)], o, err)
        ELSE Done(c, Thrown(err))

FetchSites == {"elbn_fetch1", "elbn_fetch2", "poll_fetch", "fetch_lists"}

ListLocals == [lists |-> <<>>, newLists |-> <<>>, list |-> <<>>, polled |-> <<>>]

Start(p, o, c) ==
    /\ pc[p] = "idle"
    /\ budget > 0
    /\ budget' = budget - 1
    /\ op' = [op EXCEPT ![p] = o]
    /\ SetCtl(p, c)
    /\ log' = [log EXCEPT ![p] = <<>>]
    /\ waits' = [waits EXCEPT ![p] = <<>>]

\* ensureListExistsByName(listName): up to its first await
CallEnsureListExistsByName(p) ==
    \E listName \in ListNames :
        /\ Start(p, [name |-> "ensureListExistsByName", listName |-> listName],
                 [pc |-> "elbn_fetch1", loc |-> ListLocals,
                  retry |-> <<DefaultFrame>>, sleep |-> <<>>, out |-> NoOut])
        /\ UNCHANGED <<statics, remote, hist>>

\* ensureSenderListExists(senderId): up to its first await
CallEnsureSenderListExists(p) ==
    \E senderId \in SenderIds :
        /\ Start(p, [name |-> "ensureSenderListExists", senderId |-> senderId,
                     listName |-> FormatListNameForSender(senderId)],
                 [pc |-> "elbn_fetch1", loc |-> ListLocals,
                  retry |-> <<DefaultFrame>>, sleep |-> <<>>, out |-> NoOut])
        /\ UNCHANGED <<statics, remote, hist>>

\* if (this.listCache && !force) (an array, even empty, is truthy)
NeverUseCache(cache, force) == FALSE
UseCache(cache, force) == cache # <<>> /\ ~force

\* fetchAllSenderLists(force) called by the user: up to its first await
CallFetchAllSenderLists(p) ==
    \E force \in BOOLEAN :
        LET c0 == [pc |-> "fetch_lists", loc |-> ListLocals,
                   retry |-> <<DefaultFrame>>, sleep |-> <<>>, out |-> NoOut]
        IN  /\ Start(p, [name |-> "fetchAllSenderLists", force |-> force],
                     IF UseCache(listCache, force)
                     THEN Done([c0 EXCEPT !.retry = <<>>], Returned(listCache[1]))
                     ELSE c0)
            /\ UNCHANGED <<statics, remote, hist>>

\* What a read of the lists may show: the settled roster, with or without
\* the lists created recently (reads lag behind writes until they settle).
Views == {roster, roster \o pending}

\* fetchAllSenderLists(true): the GET and what follows its response
ListsRequest(p) ==
    /\ pc[p] \in FetchSites
    /\ sleep[p] = <<>>
    /\ \/ \E view \in Views :
            /\ Issue(p, Request("GET", "/v3/marketing/lists", NoBody), Ok(view))
            /\ listCache' = <<view>>
            /\ SetCtl(p, AfterFetch([Cur(p) EXCEPT !.retry = Pop(@)], op[p], view))
       \/ \E err \in RemoteErrors :
            /\ Issue(p, Request("GET", "/v3/marketing/lists", NoBody), Failed(err))
            /\ SetCtl(p, AfterRetriedError(Cur(p), op[p], err))
            /\ UNCHANGED listCache
    /\ UNCHANGED <<registry, templateCache, fieldMapCache, built, remote, op, waits,
                   hist, budget>>

\* POST /v3/marketing/lists inside _withRetry, then the settle delay
CreateRequest(p) ==
    /\ pc[p] = "elbn_create"
    /\ sleep[p] = <<>>
    /\ LET rq == Request("POST", "/v3/marketing/lists", [name |-> op[p].listName])
       IN  \/ /\ Len(roster) + Len(pending) < MaxLists
              /\ Issue(p, rq, Ok([id |-> nextId, name |-> op[p].listName]))
              /\ pending' = Append(pending, [id |-> nextId, name |-> op[p].listName])
              /\ nextId' = nextId + 1
              /\ SetCtl(p, [Cur(p) EXCEPT !.pc = "elbn_fetch2",
                                          !.retry = <<DefaultFrame>>,
                                          !.sleep = Timer(SettleDelay, "settle")])
              /\ UNCHANGED <<roster, fieldDefs>>
           \/ \E err \in RemoteErrors :
                /\ Issue(p, rq, Failed(err))
                /\ SetCtl(p, AfterRetriedError(Cur(p), op[p], err))
                /\ UNCHANGED remote
    /\ UNCHANGED <<statics, op, waits, hist, budget>>

\* a pending setTimeout fires
TimerFires(p) ==
    /\ sleep[p] # <<>>
    /\ waits' = [waits EXCEPT ![p] = Append(@, sleep[p][1])]
    /\ sleep' = [sleep EXCEPT ![p] = <<>>]
    /\ UNCHANGED <<statics, remote, pc, op, loc, retry, out, log, hist, budget>>

\* the caller receives the result; the invocation's frame is gone
Complete(p) ==
    /\ pc[p] = "done"
    /\ hist' = Append(hist, [op |-> op[p], out |-> out[p], log |-> log[p]])
    /\ pc' = [pc EXCEPT ![p] = "idle"]
    /\ op' = [op EXCEPT ![p] = [name |-> "none"]]
    /\ loc' = [loc EXCEPT ![p] = ListLocals]
    /\ out' = [out EXCEPT ![p] = NoOut]
    /\ log' = [log EXCEPT ![p] = <<>>]
    /\ waits' = [waits EXCEPT ![p] = <<>>]
    /\ retry' = [retry EXCEPT ![p] = <<>>]
    /\ UNCHANGED <<statics, remote, sleep, budget>>

\* The remote becomes consistent: a created list shows up in reads.
RemoteSettle ==
    /\ pending # <<>>
    /\ roster' = Append(roster, Head(pending))
    /\ pending' = Tail(pending)
    /\ UNCHANGED <<statics, nextId, fieldDefs, pc, op, loc, retry, sleep, out,
                   log, waits, hist, budget>>

---------------------------------------------------------------------------
(* getRecipientsInSenderList *)

ListIds == {"L1", "L2"}
\* the contacts a list may hold
ContactSets == {<<>>, <<[email |-> "a@b.c"]>>}
\* the response sgClient.request resolves with
Response(body) == [statusCode |-> "200", body |-> body]

\* getRecipientsInSenderList(listId): up to the await of _withRetry
CallGetRecipientsInSenderList(p) ==
    \E listId \in ListIds :
        /\ Start(p, [name |-> "getRecipientsInSenderList", listId |-> listId],
                 [pc |-> "recipients_fetch", loc |-> [res |-> <<>>],
                  retry |-> <<DefaultFrame>>, sleep |-> <<>>, out |-> NoOut])
        /\ UNCHANGED <<statics, remote, hist>>

\* GET /v3/marketing/contacts?list_ids=<listId> inside _withRetry
RecipientsRequest(p) ==
    /\ pc[p] = "recipients_fetch"
    /\ sleep[p] = <<>>
    /\ LET rq == Request("GET", "/v3/marketing/contacts?list_ids=" \o op[p].listId,
                         NoBody)
       IN  \/ \E contacts \in ContactSets :
                /\ Issue(p, rq, Ok([result |-> contacts]))
                /\ SetCtl(p, Done([Cur(p) EXCEPT !.retry = Pop(@)],
                                  Returned(Response([result |-> contacts]))))
           \/ \E err \in RemoteErrors :
                /\ Issue(p, rq, Failed(err))
                /\ SetCtl(p, AfterRetriedError(Cur(p), op[p], err))
    /\ UNCHANGED <<statics, remote, op, waits, hist, budget>>

---------------------------------------------------------------------------
(* ensureCustomFieldExists *)

FieldNames == {"weekly_newsletter", "vip"}
FieldTypes == {"text", "number"}
\* a custom field definition as the remote describes it
FieldDefinition(name, type) ==
    [id |-> "cf_" \o name, name |-> name, field_type |-> type]

\* what a JS function returns when it returns undefined
Undefined == [undefined |-> TRUE]

\* custom_fields.find((f) => f.name === name): the field, or Undefined
FindField(fields, name) ==
    LET m == {f \in fields : f.name = name}
    IN  IF m = {} THEN Undefined ELSE CHOOSE f \in m : TRUE

\* the remote's answer to creating a field whose name is taken
AlreadyExists ==
    [name |-> "ResponseError", message |-> "Bad Request", hasResponse |-> TRUE,
     statusCode |-> 400, hasErrors |-> TRUE,
     errors |-> <<"custom field already exists">>]

\* err.response?.body?.errors?.[0]?.message?.includes("already exists")
IsConflict(err) ==
    /\ err.hasErrors
    /\ err.errors # <<>>
    /\ err.errors[1] \in {"custom field already exists"}

\* ensureCustomFieldExists(name, type): up to its first await
CallEnsureCustomFieldExists(p) ==
    \E name \in FieldNames, type \in FieldTypes :
        /\ Start(p, [name |-> "ensureCustomFieldExists", fieldName |-> name,
                     type |-> type],
                 [pc |-> "field_lookup", loc |-> [existing |-> <<>>],
                  retry |-> <<>>, sleep |-> <<>>, out |-> NoOut])
        /\ UNCHANGED <<statics, remote, hist>>

\* GET /v3/marketing/field_definitions, then the find
FieldLookupRequest(p) ==
    /\ pc[p] = "field_lookup"
    /\ LET rq == Request("GET", "/v3/marketing/field_definitions", NoBody)
       IN  \/ /\ Issue(p, rq, Ok([custom_fields |-> fieldDefs]))
              /\ LET exists == FindField(fieldDefs, op[p].fieldName)
                     c == [Cur(p) EXCEPT !.loc = [existing |-> <<fieldDefs>>]]
                 IN  SetCtl(p, IF exists # Undefined
                               THEN Done(c, Returned(exists))
                               ELSE [c EXCEPT !.pc = "field_create"])
           \/ \E err \in RemoteErrors :
                /\ Issue(p, rq, Failed(err))
                /\ SetCtl(p, Done(Cur(p), Thrown(err)))
    /\ UNCHANGED <<statics, remote, op, waits, hist, budget>>

\* POST /v3/marketing/field_definitions, inside the try
FieldCreateRequest(p) ==
    /\ pc[p] = "field_create"
    /\ LET rq == Request("POST", "/v3/marketing/field_definitions",
                         [name |-> op[p].fieldName, field_type |-> op[p].type])
           created == FieldDefinition(op[p].fieldName, op[p].type)
           catch(err) ==
               IF IsConflict(err)
               THEN Done(Cur(p), Returned(FindField(loc[p].existing[1],
                                                    op[p].fieldName)))
               ELSE Done(Cur(p), Thrown(err))
       IN  \/ /\ FindField(fieldDefs, op[p].fieldName) = Undefined
              /\ Issue(p, rq, Ok(created))
              /\ fieldDefs' = fieldDefs \cup {created}
              /\ SetCtl(p, Done(Cur(p), Returned(created)))
              /\ UNCHANGED <<roster, pending, nextId>>
           \/ /\ FindField(fieldDefs, op[p].fieldName) # Undefined
              /\ Issue(p, rq, Failed(AlreadyExists))
              /\ SetCtl(p, catch(AlreadyExists))
              /\ UNCHANGED remote
           \/ \E err \in RemoteErrors :
                /\ Issue(p, rq, Failed(err))
                /\ SetCtl(p, catch(err))
                /\ UNCHANGED remote
    /\ UNCHANGED <<statics, op, waits, hist, budget>>

\* Another client of the account creates a custom field while an
\* invocation is between its lookup and its create (a creation at any other
\* moment shows to the service as the definitions it starts with).
RemoteFieldCreated ==
    /\ \E p \in Procs : pc[p] = "field_create"
    /\ \E name \in FieldNames, type \in FieldTypes :
          /\ FindField(fieldDefs, name) = Undefined
          /\ fieldDefs' = fieldDefs \cup {FieldDefinition(name, type)}
    /\ UNCHANGED <<statics, roster, pending, nextId, pc, op, loc, retry, sleep,
                   out, log, waits, hist, budget>>

---------------------------------------------------------------------------
(* sendCampaignEmail *)

Tags == {"order_id", "message_body", "weekly_newsletter", "constructor"}
CampaignTemplateKeys == {"creator-broadcast", "new-order-email", "no-such-template",
                         "constructor"}
\* sendAt: undefined, 'now', or a time
SendAts == {"undefined", "now", "2030-01-01T00:00:00Z"}
\* ids the remote gives the segments and campaigns it creates
SegmentIds == {"seg-1", "seg-2"}
CampaignIds == {"cmp-1", "cmp-2"}
\* parseInt(process.env.SENDGRID_SENDER_ID), Date.now()
EnvSenderId == "SENDGRID_SENDER_ID"
Now == "1700000000000"

Truthy(v) == v \notin {"undefined", "null", "", "0", "false"}

\* err.response?.body?.errors?.map((e) => e.message).join("; ") || fallback
MessageOnly(err, fallback) == fallback
MergedOr(err, fallback) ==
    IF err.hasErrors /\ Join(err.errors, "; ") # ""
    THEN Join(err.errors, "; ")
    ELSE fallback

SegmentName(o) ==
    "segment_" \o o.listId \o "_" \o o.tag \o "__sender_" \o o.senderId

SegmentBodyNoList(o) ==
    [name |-> SegmentName(o), list_ids |-> <<>>,
     conditions |-> <<[field |-> "custom_fields." \o o.tag, operator |-> "equals",
                       value |-> "true"]>>]
SegmentBody(o) ==
    [name |-> SegmentName(o), list_ids |-> <<o.listId>>,
     conditions |-> <<[field |-> "custom_fields." \o o.tag, operator |-> "equals",
                       value |-> "true"]>>]

\* template_id is <<>> when the lookup gave undefined
CampaignBodyAnySegment(o, l) ==
    [name |-> "Campaign_" \o o.templateKey \o "_" \o Now,
     send_to |-> [segment_ids |-> <<"seg-1">>],
     email_config |-> [sender_id |-> EnvSenderId, template_id |-> l.templateId]]
CampaignBody(o, l) ==
    [name |-> "Campaign_" \o o.templateKey \o "_" \o Now,
     send_to |-> [segment_ids |-> <<l.segmentId[1]>>],
     email_config |-> [sender_id |-> EnvSenderId, template_id |-> l.templateId]]

ScheduleBody(o) == [send_at |-> IF Truthy(o.sendAt) THEN o.sendAt ELSE "now"]

CampaignLocals == [segmentId |-> <<>>, campaignId |-> <<>>, templateId |-> <<>>]

\* sendCampaignEmail(...): the tag check, up to the first await
AcceptAnyTag(map, tag) == <<"any">>
TagType(map, tag) == Get(map, tag)

CallSendCampaignEmail(p) ==
    \E listId \in ListIds, tag \in Tags, templateKey \in CampaignTemplateKeys,
       senderId \in SenderIds, sendAt \in SendAts :
        LET o == [name |-> "sendCampaignEmail", listId |-> listId, tag |-> tag,
                  templateKey |-> templateKey, senderId |-> senderId,
                  sendAt |-> sendAt]
            b == BuildFieldType(registry, templateCache, fieldMapCache, built)
            c0 == [pc |-> "camp_segment", loc |-> CampaignLocals, retry |-> <<>>,
                   sleep |-> <<>>, out |-> NoOut]
        IN  /\ Start(p, o,
                     IF ~b.ok THEN Done(c0, Thrown(b.err))
                     ELSE IF TagType(b.map, tag) = <<>>
                     THEN Done(c0, Thrown(Error("Invalid tag: " \o tag)))
                     ELSE c0)
            /\ templateCache' = b.templateCache
            /\ fieldMapCache' = b.fieldMapCache
            /\ built' = b.built
            /\ UNCHANGED <<registry, listCache, remote, hist>>

\* What follows the segment response: the campaign body is built, and
\* reading .templateId of an undefined template throws.
AfterSegment(c, o, reg, tc, id) ==
    LET tl == GetTemplate(LoadEmailTemplateConfig(reg, tc), o.templateKey)
        c1 == [c EXCEPT !.loc = [c.loc EXCEPT !.segmentId = <<id>>]]
    IN  CASE tl.k = "undefined" ->
               Done(c1, Thrown(TypeError(
                   "Cannot read properties of undefined (reading 'templateId')")))
          [] tl.k = "inherited" -> [c1 EXCEPT !.pc = "camp_create"]
          [] tl.k = "own" ->
               [c1 EXCEPT !.pc = "camp_create",
                          !.loc = [c1.loc EXCEPT !.templateId = <<tl.t.templateId>>]]

\* POST /v3/marketing/segments, inside the try
SegmentRequest(p) ==
    /\ pc[p] = "camp_segment"
    /\ LET rq == Request("POST", "/v3/marketing/segments", SegmentBody(op[p]))
       IN  \/ \E id \in SegmentIds :
                /\ Issue(p, rq, Ok([id |-> id]))
                /\ SetCtl(p, AfterSegment(Cur(p), op[p], registry, templateCache, id))
                /\ templateCache' = <<LoadEmailTemplateConfig(registry, templateCache)>>
           \/ \E err \in RemoteErrors :
                /\ Issue(p, rq, Failed(err))
                /\ SetCtl(p, Done(Cur(p), Thrown(Error("Failed to create segment: "
                                       \o MergedOr(err, err.message)))))
                /\ UNCHANGED templateCache
    /\ UNCHANGED <<registry, fieldMapCache, listCache, built, remote, op, waits,
                   hist, budget>>

\* POST /v3/marketing/singlesends: no try around it
CampaignRequest(p) ==
    /\ pc[p] = "camp_create"
    /\ LET rq == Request("POST", "/v3/marketing/singlesends",
                         CampaignBody(op[p], loc[p]))
       IN  \/ \E id \in CampaignIds :
                /\ Issue(p, rq, Ok([id |-> id]))
                /\ SetCtl(p, [Cur(p) EXCEPT !.pc = "camp_schedule",
                                            !.loc = [loc[p] EXCEPT !.campaignId = <<id>>]])
           \/ \E err \in RemoteErrors :
                /\ Issue(p, rq, Failed(err))
                /\ SetCtl(p, Done(Cur(p), Thrown(err)))
    /\ UNCHANGED <<statics, remote, op, waits, hist, budget>>

\* POST /v3/marketing/singlesends/<campaignId>/schedule: no try around it
ScheduleRequest(p) ==
    /\ pc[p] = "camp_schedule"
    /\ LET rq == Request("POST", "/v3/marketing/singlesends/" \o loc[p].campaignId[1]
                                 \o "/schedule", ScheduleBody(op[p]))
       IN  \/ /\ Issue(p, rq, Ok(NoBody))
              /\ SetCtl(p, Done(Cur(p), Returned([campaignId |-> loc[p].campaignId[1],
                                                  segmentId |-> loc[p].segmentId[1]])))
           \/ \E err \in RemoteErrors :
                /\ Issue(p, rq, Failed(err))
                /\ SetCtl(p, Done(Cur(p), Thrown(err)))
    /\ UNCHANGED <<statics, remote, op, waits, hist, budget>>

---------------------------------------------------------------------------
(* subscribeOrUnsubscribeRecipientFromSenderListByTag *)

\* custom field names, in the order Object.entries yields them
FieldOrder == <<"weekly_newsletter", "constructor">>
FieldKeys == {FieldOrder[i] : i \in 1..Len(FieldOrder)}
\* values given for a custom field, and values the remote may hold for it
GivenValues == {"true", "gold"}
StoredValues == {"true", "gold", "null"}
Objects(keys, vals) == UNION {[d -> vals] : d \in SUBSET keys}
CustomFieldSets == Objects(FieldKeys, GivenValues)
SubscribeEmails == {GoodEmail, NoAtEmail}

\* what the search answers: no contact, or the contact with its custom_fields
\* (<<>> when the contact has none)
SearchResults ==
    {<<>>} \cup {<<[email |-> "stored", custom_fields |-> <<>>]>>}
           \cup {<<[email |-> "stored", custom_fields |-> <<cf>>]>> :
                     cf \in Objects(FieldKeys, StoredValues)}
\* what the upsert answers
UpsertBodies == {[job_id |-> "job-1"], [job_id |-> "job-2"]}

\* the contact of the upsert payload; list_ids is <<>> when undefined
PayloadEmptyLists(o) ==
    [contacts |-> <<[email |-> Str(o.email),
                     list_ids |-> IF o.subscribe THEN <<<<o.listId>>>> ELSE <<<<>>>>,
                     custom_fields |->
                         IF o.subscribe THEN o.customFields
                         ELSE [k \in DOMAIN o.customFields |-> "null"]]>>]
Payload(o) ==
    [contacts |-> <<[email |-> Str(o.email),
                     list_ids |-> IF o.subscribe THEN <<<<o.listId>>>> ELSE <<>>,
                     custom_fields |->
                         IF o.subscribe THEN o.customFields
                         ELSE [k \in DOMAIN o.customFields |-> "null"]]>>]

SearchBody(email) == [query |-> "email = '" \o Str(email) \o "'"]

\* contact.custom_fields?.[field]: an own property, else what
\* Object.prototype holds under that name, else undefined
Current(contact, field) ==
    IF contact.custom_fields = <<>> THEN "undefined"
    ELSE IF field \in DOMAIN contact.custom_fields[1]
    THEN contact.custom_fields[1][field]
    ELSE IF field \in ObjectPrototypeKeys THEN "[inherited]"
    ELSE "undefined"

\* one round of the verification loop: <<>> or <<the error thrown>>
FieldCheck(contact, field, value, subscribe) ==
    IF subscribe /\ Current(contact, field) # value
    THEN <<Error("Field '" \o field \o "' was not set to '" \o value \o "'")>>
    ELSE IF ~subscribe /\ Current(contact, field) \notin {"null", "undefined"}
    THEN <<Error("Field '" \o field \o "' was not cleared")>>
    ELSE <<>>

RECURSIVE VerifyFields(_, _, _, _)
VerifyFields(contact, customFields, subscribe, order) ==
    IF order = <<>> THEN <<>>
    ELSE IF Head(order) \notin DOMAIN customFields
    THEN VerifyFields(contact, customFields, subscribe, Tail(order))
    ELSE LET r == FieldCheck(contact, Head(order), customFields[Head(order)], subscribe)
         IN  IF r # <<>> THEN r
             ELSE VerifyFields(contact, customFields, subscribe, Tail(order))

\* the checks after the search: <<>> or <<the error thrown inside the try>>
VerifySubscribeOnly(result, customFields, subscribe) ==
    IF result = <<>> THEN <<Error("Contact not found after update.")>>
    ELSE IF subscribe THEN VerifyFields(result[1], customFields, subscribe, FieldOrder)
    ELSE <<>>
Verify(result, customFields, subscribe) ==
    IF result = <<>> THEN <<Error("Contact not found after update.")>>
    ELSE VerifyFields(result[1], customFields, subscribe, FieldOrder)

\* the catch of subscribeOrUnsubscribe...: every error becomes a new Error
Rethrow(err) == err
SubscribeCatch(err) == Error(MergedOr(err, "Failed to update recipient fields"))

SubscribeLocals == [res |-> <<>>]

\* subscribeOrUnsubscribeRecipientFromSenderListByTag(...): the email check
CallSubscribe(p) ==
    \E email \in SubscribeEmails, listId \in ListIds,
       customFields \in CustomFieldSets, subscribe \in BOOLEAN :
        LET o == [name |-> "subscribeOrUnsubscribeRecipientFromSenderListByTag",
                  email |-> email, listId |-> listId,
                  customFields |-> customFields, subscribe |-> subscribe]
            c0 == [pc |-> "sub_upsert", loc |-> SubscribeLocals, retry |-> <<>>,
                   sleep |-> <<>>, out |-> NoOut]
        IN  /\ Start(p, o,
                     IF ~IsValidEmail(email)
                     THEN Done(c0, Thrown(Error("Invalid email format: " \o Str(email))))
                     ELSE c0)
            /\ UNCHANGED <<statics, remote, hist>>

\* PUT /v3/marketing/contacts
UpsertRequest(p) ==
    /\ pc[p] = "sub_upsert"
    /\ LET rq == Request("PUT", "/v3/marketing/contacts", Payload(op[p]))
       IN  \/ \E body \in UpsertBodies :
                /\ Issue(p, rq, Ok(body))
                /\ SetCtl(p, [Cur(p) EXCEPT !.pc = "sub_search",
                                            !.loc = [res |-> <<body>>]])
           \/ \E err \in RemoteErrors :
                /\ Issue(p, rq, Failed(err))
                /\ SetCtl(p, Done(Cur(p), Thrown(SubscribeCatch(err))))
    /\ UNCHANGED <<statics, remote, op, waits, hist, budget>>

\* POST /v3/marketing/contacts/search, then the verification
SearchRequest(p) ==
    /\ pc[p] = "sub_search"
    /\ LET rq == Request("POST", "/v3/marketing/contacts/search",
                         SearchBody(op[p].email))
       IN  \/ \E result \in SearchResults :
                LET v == Verify(result, op[p].customFields, op[p].subscribe)
                IN  /\ Issue(p, rq, Ok([result |-> result]))
                    /\ SetCtl(p, IF v # <<>>
                                 THEN Done(Cur(p), Thrown(SubscribeCatch(v[1])))
                                 ELSE Done(Cur(p), Returned(loc[p].res[1])))
           \/ \E err \in RemoteErrors :
                /\ Issue(p, rq, Failed(err))
                /\ SetCtl(p, Done(Cur(p), Thrown(SubscribeCatch(err))))
    /\ UNCHANGED <<statics, remote, op, waits, hist, budget>>

---------------------------------------------------------------------------
(* sendSimpleEmail *)

\* a value of dynamicTemplateData is kept as its kind: what typeof and
\* Array.isArray tell of it, or "null"
Kinds == {"string", "array", "boolean", "null"}
\* the keys dynamicTemplateData may have, in the order Object.entries yields
\* them (the order they were written in)
DataOrder == <<"order_id", "user_name", "items", "reset_link", "user_email",
               "creator_name", "message_body", "is_vip", "note", "extra">>
\* the keys of the data sent with new-order-email
DataKeys == {"order_id", "user_name", "items"}
\* dynamicTemplateData: <<>> when undefined
DataSets == {<<>>} \cup {<<d>> : d \in Objects(DataKeys, Kinds)}

\* cc / bcc: <<>> when undefined, else an array of addresses or a
\* (non-empty) string
\* (truthy tells a non-array value that passes `cc &&` from one that does not)
EmailList(isArray, items) == [isArray |-> isArray, items |-> items, truthy |-> TRUE]
\* the empty string given as cc / bcc
EmptyString == [isArray |-> FALSE, items |-> <<>>, truthy |-> FALSE]
CcSamples == {<<>>, <<EmailList(FALSE, <<>>)>>, <<EmailList(TRUE, <<GoodEmail>>)>>,
              <<EmailList(TRUE, <<GoodEmail, NoDotEmail>>)>>}
BccSamples == {<<>>, <<EmailList(TRUE, <<>>)>>, <<EmailList(TRUE, <<SpacedEmail>>)>>}
ToSamples == {GoodEmail, OtherGoodEmail, NoAtEmail}
FromSamples == {GoodEmail, NoDotEmail}
SimpleTemplateKeys == {"new-order-email", "password-reset", "no-such-template",
                       "constructor"}
SendResponses == {[statusCode |-> "202"], [statusCode |-> "200"]}

\* cc && (!Array.isArray(cc) || cc.some((email) => !this._isValidEmail(email)))
InvalidList(l) ==
    /\ l # <<>>
    /\ l[1].truthy
    /\ \/ ~l[1].isArray
       \/ \E i \in 1..Len(l[1].items) : ~IsValidEmail(l[1].items[i])

\* field in dynamicTemplateData
In(field, obj) == field \in DOMAIN obj \/ field \in ObjectPrototypeKeys

\* requiredFields.filter((field) => !(field in dynamicTemplateData))
FirstMissingOnly(requiredFields, data) ==
    LET m == SelectSeq(requiredFields, LAMBDA f : ~In(f, data))
    IN  IF m = <<>> THEN <<>> ELSE <<m[1]>>
MissingFields(requiredFields, data) ==
    SelectSeq(requiredFields, LAMBDA f : ~In(f, data))

\* the three type tests of the loop, for a value that is not null
NeverMismatch(expected, kind) == FALSE
StringTestOnly(expected, kind) == expected = "string" /\ kind # "string"
Mismatch(expected, kind) ==
    \/ expected = "string" /\ kind # "string"
    \/ expected = "boolean" /\ kind # "boolean"
    \/ expected = "array" /\ kind # "array"

\* the loop over Object.entries(dynamicTemplateData): <<>> or <<error>>
RECURSIVE CheckTypes(_, _, _)
CheckTypes(customFieldTypes, data, order) ==
    IF order = <<>> THEN <<>>
    ELSE IF Head(order) \notin DOMAIN data
    THEN CheckTypes(customFieldTypes, data, Tail(order))
    ELSE IF customFieldTypes = <<>>
    THEN <<TypeError("Cannot read properties of undefined (reading '"
                        \o Head(order) \o "')")>>
    ELSE LET expected == Get(customFieldTypes[1], Head(order))
         IN  IF /\ expected # <<>>
                /\ data[Head(order)] # "null"
                /\ Mismatch(expected[1], data[Head(order)])
             THEN <<Error("Invalid type for " \o Head(order) \o ": expected "
                             \o expected[1])>>
             ELSE CheckTypes(customFieldTypes, data, Tail(order))

\* the checks on the template, from line 284 on: <<>> or <<error>>
CheckTemplate(o, config) ==
    LET tl == GetTemplate(config, o.templateKey)
    IN  CASE tl.k = "undefined" ->
               <<Error("Unknown templateKey: " \o o.templateKey)>>
          [] tl.k = "inherited" ->
               <<TypeError("Cannot read properties of undefined (reading 'filter')")>>
          [] tl.k = "own" ->
               IF o.dynamicTemplateData = <<>>
               THEN IF tl.t.requiredFields # <<>>
                    THEN <<TypeError("Cannot use 'in' operator to search for '"
                                        \o tl.t.requiredFields[1] \o "' in undefined")>>
                    ELSE <<TypeError("Cannot convert undefined or null to object")>>
               ELSE LET data == o.dynamicTemplateData[1]
                        missing == MissingFields(tl.t.requiredFields, data)
                    IN  IF missing # <<>>
                        THEN <<Error("Missing required template fields: "
                                        \o Join(missing, ", "))>>
                        ELSE CheckTypes(tl.t.customFieldTypes, data, DataOrder)

\* the checks on the addresses, lines 259-280: <<>> or <<error>>
CheckAddresses(o) ==
    IF ~IsValidEmail(o.to)
    THEN <<Error("Invalid recipient email: " \o Str(o.to))>>
    ELSE IF ~IsValidEmail(o.from)
    THEN <<Error("Invalid sender email: " \o Str(o.from))>>
    ELSE IF InvalidList(o.cc) THEN <<Error("Invalid CC email list")>>
    ELSE IF InvalidList(o.bcc) THEN <<Error("Invalid BCC email list")>>
    ELSE <<>>

\* msg
MessageFirstTemplate(o, config) ==
    [to |-> Str(o.to), from |-> Str(o.from), templateId |-> config[1].templateId,
     dynamicTemplateData |-> o.dynamicTemplateData, cc |-> o.cc, bcc |-> o.bcc]
Message(o, config) ==
    [to |-> Str(o.to), from |-> Str(o.from),
     templateId |-> GetTemplate(config, o.templateKey).t.templateId,
     dynamicTemplateData |-> o.dynamicTemplateData, cc |-> o.cc, bcc |-> o.bcc]

\* sendSimpleEmail(options): every check, up to the await of sgMail.send
SendSimpleEmail(p, to, from, cc, bcc, templateKey, data) ==
    LET o == [name |-> "sendSimpleEmail", to |-> to, from |-> from,
              templateKey |-> templateKey, dynamicTemplateData |-> data,
              cc |-> cc, bcc |-> bcc]
        config == LoadEmailTemplateConfig(registry, templateCache)
        c0 == [pc |-> "simple_send", loc |-> [msg |-> <<>>], retry |-> <<>>,
               sleep |-> <<>>, out |-> NoOut]
        a == CheckAddresses(o)
        t == CheckTemplate(o, config)
    IN  /\ Start(p, o,
                 IF a # <<>> THEN Done(c0, Thrown(a[1]))
                 ELSE IF t # <<>> THEN Done(c0, Thrown(t[1]))
                 ELSE [c0 EXCEPT !.loc = [msg |-> <<Message(o, config)>>]])
        /\ templateCache' = IF a # <<>> THEN templateCache ELSE <<config>>
        /\ UNCHANGED <<registry, fieldMapCache, listCache, built, remote, hist>>

\* a call of sendSimpleEmail, on sample addresses, lists, keys and data
CallSendSimpleEmail(p) ==
    /\ pc[p] = "idle" /\ budget > 0
    /\ \E to \in ToSamples, from \in FromSamples, cc \in CcSamples, bcc \in BccSamples,
          templateKey \in SimpleTemplateKeys, data \in DataSets :
           SendSimpleEmail(p, to, from, cc, bcc, templateKey, data)

\* A registry declaring a boolean field (the type line 307 tests for; the
\* shipped registry declares none).
TypedTemplateMap ==
    << Template("vip-notice", "d-vipnotice0001234567890abcdef",
                <<"is_vip", "note">>,
                <<[is_vip |-> "boolean", note |-> "string"]>>) >>

\* the fields a template names
TemplateFields(t) ==
    {t.requiredFields[i] : i \in 1..Len(t.requiredFields)}
        \cup (IF t.customFieldTypes = <<>> THEN {} ELSE DOMAIN t.customFieldTypes[1])

\* a call of sendSimpleEmail with valid addresses, on a template of the
\* registry, with any data over the template's fields and one more key
CallSendSimpleEmailOnTemplate(p) ==
    /\ pc[p] = "idle" /\ budget > 0
    /\ \E i \in 1..Len(registry) :
          \E d \in Objects(TemplateFields(registry[i]) \cup {"extra"}, Kinds) :
              SendSimpleEmail(p, GoodEmail, OtherGoodEmail, <<>>, <<>>,
                              registry[i].key, <<d>>)

\* every string up to MaxEmailLen over a letter, "@", "." and a space
EmailAlphabet == {"a", "@", ".", " "}
Addresses == UNION {[1..n -> EmailAlphabet] : n \in 0..MaxEmailLen}
\* data that passes every check of new-order-email
GoodOrderData == <<[order_id |-> "string", user_name |-> "string", items |-> "array"]>>

\* a call of sendSimpleEmail on any recipient address, with sample sender
\* addresses and cc / bcc values, all else passing the checks
CallSendSimpleEmailToAddress(p) ==
    /\ pc[p] = "idle" /\ budget > 0
    /\ \E to \in Addresses, from \in {GoodEmail, SpacedEmail},
          cc \in CcSamples \cup {<<EmptyString>>},
          bcc \in {<<>>, <<EmailList(FALSE, <<>>)>>, <<EmailList(TRUE, <<NoAtEmail>>)>>} :
           SendSimpleEmail(p, to, from, cc, bcc, "new-order-email", GoodOrderData)

\* sgMail.send(msg), inside the try
SendRequest(p) ==
    /\ pc[p] = "simple_send"
    /\ LET rq == Request("POST", "/v3/mail/send", loc[p].msg[1])
       IN  \/ \E response \in SendResponses :
                /\ Issue(p, rq, Ok(response))
                /\ SetCtl(p, Done(Cur(p), Returned(response)))
           \/ \E err \in RemoteErrors :
                /\ Issue(p, rq, Failed(err))
                /\ SetCtl(p, Done(Cur(p), Thrown(Error("Failed to send email: "
                                                         \o err.message))))
    /\ UNCHANGED <<statics, remote, op, waits, hist, budget>>

---------------------------------------------------------------------------
(* buildFieldTypeFromEmailTemplateConfig and resetInternalCache as called *)

\* Templates a registry may hold besides the shipped ones: two that declare
\* "status" with different types, one without customFieldTypes.
OrderStatus ==
    Template("order-status", "d-orderstatus0001234567890abcd", <<"status">>,
             <<[status |-> "string"]>>)
AccountStatus ==
    Template("account-status", "d-accountstatus01234567890abcd", <<"status", "note">>,
             <<[status |-> "boolean", note |-> "string"]>>)
PlainNotice ==
    Template("plain-notice", "d-plainnotice0001234567890abcd", <<>>, <<>>)
TemplatePool == {OrderStatus, AccountStatus, PlainNotice}

\* every registry of one to three distinct templates of the pool, in every
\* order, and the shipped registry
Registries ==
    {EmailTemplateMap} \cup
    {r \in UNION {[1..n -> TemplatePool] : n \in 1..3} :
        \A i \in 1..Len(r), j \in 1..Len(r) : r[i] = r[j] => i = j}

\* the mapping object a call returns: which object it is, and what it holds
FieldMapObject(id, map) == [id |-> id, types |-> map]

\* buildFieldTypeFromEmailTemplateConfig()
CallBuildFieldType(p) ==
    LET b == BuildFieldType(registry, templateCache, fieldMapCache, built)
        c0 == [pc |-> "done", loc |-> ListLocals, retry |-> <<>>, sleep |-> <<>>,
               out |-> NoOut]
    IN  /\ Start(p, [name |-> "buildFieldTypeFromEmailTemplateConfig"],
                 IF b.ok THEN Done(c0, Returned(FieldMapObject(b.built, b.map)))
                 ELSE Done(c0, Thrown(b.err)))
        /\ templateCache' = b.templateCache
        /\ fieldMapCache' = b.fieldMapCache
        /\ built' = b.built
        /\ UNCHANGED <<registry, listCache, remote, hist>>

\* resetInternalCache()
CallResetInternalCache(p) ==
    /\ Start(p, [name |-> "resetInternalCache"],
             [pc |-> "done", loc |-> ListLocals, retry |-> <<>>, sleep |-> <<>>,
              out |-> Returned(Undefined)])
    /\ templateCache' = <<>>
    /\ fieldMapCache' = <<>>
    /\ listCache' = <<>>
    /\ UNCHANGED <<registry, built, remote, hist>>

---------------------------------------------------------------------------
(* _withRetry(fn, retries, delay, maxDelay) called with any fn *)

MaxRetries == 4

RetryCounts == 1..MaxRetries
RetryDelays == {500, 1000}
RetryMaxDelays == {1000, 3000}

\* What fn may resolve with, and what it may reject with: a remote error, or
\* an error of its own such as poll's.
FnResults == {"r1", "r2"}
FnErrors == RemoteErrors \cup {Error("List not yet verified")}
FnCall == Request("CALL", "fn", NoBody)

\* _withRetry(fn, retries, delay, maxDelay): up to its first await
CallWithRetry(p) ==
    \E retries \in RetryCounts, delay \in RetryDelays, maxDelay \in RetryMaxDelays :
        /\ Start(p, [name |-> "_withRetry", retries |-> retries, delay |-> delay,
                     maxDelay |-> maxDelay],
                 [pc |-> "retry_fn", loc |-> ListLocals,
                  retry |-> <<RetryFrame(retries, delay, maxDelay)>>,
                  sleep |-> <<>>, out |-> NoOut])
        /\ UNCHANGED <<statics, remote, hist>>

\* return await fn(), and the catch block when it rejects
FnInvoked(p) ==
    /\ pc[p] = "retry_fn"
    /\ sleep[p] = <<>>
    /\ \/ \E r \in FnResults :
            /\ Issue(p, FnCall, Ok(r))
            /\ SetCtl(p, Done([Cur(p) EXCEPT !.retry = Pop(@)], Returned(r)))
       \/ \E err \in FnErrors :
            /\ Issue(p, FnCall, Failed(err))
            /\ SetCtl(p, AfterRetriedError(Cur(p), op[p], err))
    /\ UNCHANGED <<statics, remote, op, waits, hist, budget>>

---------------------------------------------------------------------------
(* Specifications *)

IdleProcs ==
    /\ pc = [p \in Procs |-> "idle"]
    /\ op = [p \in Procs |-> [name |-> "none"]]
    /\ loc = [p \in Procs |-> ListLocals]
    /\ retry = [p \in Procs |-> <<>>]
    /\ sleep = [p \in Procs |-> <<>>]
    /\ out = [p \in Procs |-> NoOut]
    /\ log = [p \in Procs |-> <<>>]
    /\ waits = [p \in Procs |-> <<>>]
    /\ hist = <<>>

InitialNextId == MaxInitLists + 1

\* Any roster and any (possibly stale) list cache.
InitRemote ==
    /\ registry = EmailTemplateMap
    /\ templateCache = <<>>
    /\ fieldMapCache = <<>>
    /\ built = 0
    /\ listCache \in {<<>>} \cup {<<r>> : r \in InitRosters}
    /\ roster \in InitRosters
    /\ pending = <<>>
    /\ nextId = InitialNextId
    /\ fieldDefs = {}
    /\ IdleProcs

\* One invocation of a list operation.
InitLists == InitRemote /\ budget = 1

NextLists ==
    \/ CallEnsureListExistsByName("p1")
    \/ CallEnsureSenderListExists("p1")
    \/ ListsRequest("p1")
    \/ CreateRequest("p1")
    \/ TimerFires("p1")
    \/ Complete("p1")
    \/ RemoteSettle

SpecLists == InitLists /\ [][NextLists]_vars

\* Two invocations of ensureListExistsByName, one after the other.
InitTwice == InitRemote /\ budget = 2

NextTwice ==
    \/ CallEnsureListExistsByName("p1")
    \/ ListsRequest("p1")
    \/ CreateRequest("p1")
    \/ TimerFires("p1")
    \/ Complete("p1")
    \/ RemoteSettle

SpecTwice == InitTwice /\ [][NextTwice]_vars

\* One invocation; the remote's lists play no part.
InitPlain ==
    /\ registry = EmailTemplateMap
    /\ templateCache = <<>>
    /\ fieldMapCache = <<>>
    /\ built = 0
    /\ listCache = <<>>
    /\ roster = <<>>
    /\ pending = <<>>
    /\ nextId = InitialNextId
    /\ fieldDefs = {}
    /\ IdleProcs
    /\ budget = 1

NextCampaign ==
    \/ CallSendCampaignEmail("p1")
    \/ SegmentRequest("p1")
    \/ CampaignRequest("p1")
    \/ ScheduleRequest("p1")
    \/ Complete("p1")

SpecCampaign == InitPlain /\ [][NextCampaign]_vars

NextSubscribe ==
    \/ CallSubscribe("p1")
    \/ UpsertRequest("p1")
    \/ SearchRequest("p1")
    \/ Complete("p1")

SpecSubscribe == InitPlain /\ [][NextSubscribe]_vars

NextSimple ==
    \/ CallSendSimpleEmail("p1")
    \/ SendRequest("p1")
    \/ Complete("p1")

SpecSimple == InitPlain /\ [][NextSimple]_vars

\* One invocation of any operation that issues requests to the remote, on
\* a fresh process (nothing cached yet).
InitRemoteOps ==
    /\ registry = EmailTemplateMap
    /\ templateCache = <<>>
    /\ fieldMapCache = <<>>
    /\ built = 0
    /\ listCache = <<>>
    /\ roster \in InitRosters
    /\ pending = <<>>
    /\ nextId = InitialNextId
    /\ fieldDefs \in {{}, {FieldDefinition("vip", "text")}}
    /\ IdleProcs
    /\ budget = 1

NextRemoteOps ==
    \/ CallEnsureListExistsByName("p1")
    \/ CallEnsureSenderListExists("p1")
    \/ ListsRequest("p1")
    \/ CreateRequest("p1")
    \/ CallGetRecipientsInSenderList("p1")
    \/ RecipientsRequest("p1")
    \/ CallEnsureCustomFieldExists("p1")
    \/ FieldLookupRequest("p1")
    \/ FieldCreateRequest("p1")
    \/ CallSubscribe("p1")
    \/ UpsertRequest("p1")
    \/ SearchRequest("p1")
    \/ CallSendCampaignEmail("p1")
    \/ SegmentRequest("p1")
    \/ CampaignRequest("p1")
    \/ ScheduleRequest("p1")
    \/ TimerFires("p1")
    \/ Complete("p1")
    \/ RemoteSettle
    \/ RemoteFieldCreated

SpecRemoteOps == InitRemoteOps /\ [][NextRemoteOps]_vars

\* The definitions the remote may start with: at most one per name.
InitFieldDefs ==
    {fs \in SUBSET {FieldDefinition(n, t) : n \in FieldNames, t \in FieldTypes} :
        \A f \in fs, g \in fs : f.name = g.name => f = g}

\* One invocation of ensureCustomFieldExists, other clients creating fields.
InitFields ==
    /\ registry = EmailTemplateMap
    /\ templateCache = <<>>
    /\ fieldMapCache = <<>>
    /\ built = 0
    /\ listCache = <<>>
    /\ roster = <<>>
    /\ pending = <<>>
    /\ nextId = InitialNextId
    /\ fieldDefs \in InitFieldDefs
    /\ IdleProcs
    /\ budget = 1

NextFields ==
    \/ CallEnsureCustomFieldExists("p1")
    \/ FieldLookupRequest("p1")
    \/ FieldCreateRequest("p1")
    \/ RemoteFieldCreated
    \/ Complete("p1")

SpecFields == InitFields /\ [][NextFields]_vars

\* One invocation of sendSimpleEmail on a known template, under the
\* shipped registry or the one declaring a boolean field.
InitTemplateData ==
    /\ registry \in {EmailTemplateMap, TypedTemplateMap}
    /\ templateCache = <<>>
    /\ fieldMapCache = <<>>
    /\ built = 0
    /\ listCache = <<>>
    /\ roster = <<>>
    /\ pending = <<>>
    /\ nextId = InitialNextId
    /\ fieldDefs = {}
    /\ IdleProcs
    /\ budget = 1

NextTemplateData ==
    \/ CallSendSimpleEmailOnTemplate("p1")
    \/ SendRequest("p1")
    \/ Complete("p1")

SpecTemplateData == InitTemplateData /\ [][NextTemplateData]_vars

NextAddresses ==
    \/ CallSendSimpleEmailToAddress("p1")
    \/ SendRequest("p1")
    \/ Complete("p1")

\* One invocation of sendSimpleEmail, on any addresses.
SpecAddresses == InitPlain /\ [][NextAddresses]_vars

\* Up to MaxCalls calls in a row of buildFieldTypeFromEmailTemplateConfig
\* and resetInternalCache, under any registry.
InitFieldMap ==
    /\ registry \in Registries
    /\ templateCache = <<>>
    /\ fieldMapCache = <<>>
    /\ built = 0
    /\ listCache = <<>>
    /\ roster = <<>>
    /\ pending = <<>>
    /\ nextId = InitialNextId
    /\ fieldDefs = {}
    /\ IdleProcs
    /\ budget = MaxCalls

NextFieldMap ==
    \/ CallBuildFieldType("p1")
    \/ CallResetInternalCache("p1")
    \/ Complete("p1")

SpecFieldMap == InitFieldMap /\ [][NextFieldMap]_vars

\* Two calls in a row of fetchAllSenderLists and resetInternalCache, the
\* cache holding nothing or a roster fetched earlier.
InitListCache == InitRemote /\ budget = 2

NextListCache ==
    \/ CallFetchAllSenderLists("p1")
    \/ ListsRequest("p1")
    \/ TimerFires("p1")
    \/ CallResetInternalCache("p1")
    \/ Complete("p1")

SpecListCache == InitListCache /\ [][NextListCache]_vars

\* One invocation of _withRetry with any fn, or of ensureSenderListExists
\* (the call site with its own retries, delay and maxDelay).
InitWithRetry ==
    /\ registry = EmailTemplateMap
    /\ templateCache = <<>>
    /\ fieldMapCache = <<>>
    /\ built = 0
    /\ listCache = <<>>
    /\ roster \in InitRosters
    /\ pending = <<>>
    /\ nextId = InitialNextId
    /\ fieldDefs = {}
    /\ IdleProcs
    /\ budget = 1

NextWithRetry ==
    \/ CallWithRetry("p1")
    \/ FnInvoked("p1")
    \/ CallEnsureSenderListExists("p1")
    \/ ListsRequest("p1")
    \/ CreateRequest("p1")
    \/ TimerFires("p1")
    \/ Complete("p1")
    \/ RemoteSettle

SpecWithRetry == InitWithRetry /\ [][NextWithRetry]_vars

\* Two invocations of ensureListExistsByName running concurrently: their
\* awaits interleave in any order. The remote fails at most MaxFaults
\* requests in all.
MaxFaults == 2

Faults(lg) == Cardinality({i \in 1..Len(lg) : ~lg[i].rs.ok})
FewFaults == Faults(log["p1"]) + Faults(log["p2"]) <= MaxFaults

InitRace ==
    /\ registry = EmailTemplateMap
    /\ templateCache = <<>>
    /\ fieldMapCache = <<>>
    /\ built = 0
    /\ listCache = <<>>
    /\ roster \in InitRosters
    /\ pending = <<>>
    /\ nextId = InitialNextId
    /\ fieldDefs = {}
    /\ IdleProcs
    /\ budget = 2

NextRace ==
    /\ \/ \E p \in Procs :
             \/ CallEnsureListExistsByName(p)
             \/ ListsRequest(p)
             \/ CreateRequest(p)
             \/ TimerFires(p)
       \/ RemoteSettle
    /\ FewFaults'

SpecRace == InitRace /\ [][NextRace]_vars

\* One invocation of ensureSenderListExists; every request it awaits is
\* answered in the end and every timer it awaits fires.
NextSender ==
    \/ CallEnsureSenderListExists("p1")
    \/ ListsRequest("p1")
    \/ CreateRequest("p1")
    \/ TimerFires("p1")
    \/ Complete("p1")
    \/ RemoteSettle

SpecSenderFair ==
    /\ InitLists
    /\ [][NextSender]_vars
    /\ WF_vars(ListsRequest("p1"))
    /\ WF_vars(CreateRequest("p1"))
    /\ WF_vars(TimerFires("p1"))

---------------------------------------------------------------------------
(* Claims *)

IsListCreate(e) == e.rq.method = "POST" /\ e.rq.url = "/v3/marketing/lists"
IsListFetch(e) == e.rq.method = "GET" /\ e.rq.url = "/v3/marketing/lists"
NumListCreates(lg) == Cardinality({i \in 1..Len(lg) : IsListCreate(lg[i])})
NumListFetches(lg) == Cardinality({i \in 1..Len(lg) : IsListFetch(lg[i])})

\* The second of two successive ensureListExistsByName(n) has just ended,
\* and both returned.
TwiceReturned ==
    /\ Len(hist) = 1
    /\ pc["p1"] = "done"
    /\ hist[1].op.name = "ensureListExistsByName"
    /\ op["p1"] = hist[1].op
    /\ hist[1].out.k = "return"
    /\ out["p1"].k = "return"

\* C1 as stated: two successive calls ensureListExistsByName(n) that return
\* have issued at most one list-create request in total and return the same
\* list (same id and name).
C1_AtMostOneCreateRequest ==
    TwiceReturned =>
        /\ NumListCreates(hist[1].log) + NumListCreates(log["p1"]) <= 1
        /\ out["p1"].v = hist[1].out.v

\* C1, amended: when both calls return and the second call's roster fetch
\* shows the list, both return the same list, the second call issues no
\* create request, the first at most DefaultRetries (one, re-sent after a
\* 429), and the remote accepted at most one create.
C1_SameListOneCreateCall ==
    (TwiceReturned /\ HasName(loc["p1"].lists[1], op["p1"].listName)) =>
        /\ out["p1"].v = hist[1].out.v
        /\ out["p1"].v.name = op["p1"].listName
        /\ NumListCreates(log["p1"]) = 0
        /\ NumListCreates(hist[1].log) <= DefaultRetries
        /\ nextId - InitialNextId <= 1

\* C1 witness: the first call created the list after a rate-limited create,
\* the second found it.
C1_Witness ==
    /\ TwiceReturned
    /\ HasName(loc["p1"].lists[1], op["p1"].listName)
    /\ NumListCreates(hist[1].log) = 2
    /\ nextId - InitialNextId = 1
    /\ out["p1"].v = hist[1].out.v

\* ensureSenderListExists ended in its catch right after a verification
\* fetch that did not show the list.
PollMissed(p) ==
    /\ pc[p] = "done"
    /\ op[p].name = "ensureSenderListExists"
    /\ out[p] = Thrown(Error("List creation failed: " \o op[p].listName))
    /\ loc[p].polled # <<>>
    /\ ~HasName(loc[p].polled[1], op[p].listName)

\* C2: the verification of ensureSenderListExists re-queries up to 5 times;
\* a re-query that does not show the list is retried, and the operation
\* fails with 'List creation failed: <listName>' only after the final
\* (5th) attempt also misses.
C2_MissRetriedUntilFinalAttempt ==
    \A p \in Procs : PollMissed(p) => Top(retry[p]).attempt = PollRetries

\* sendCampaignEmail has ended.
CampaignDone(p) == pc[p] = "done" /\ op[p].name = "sendCampaignEmail"

\* The keys of the templates' customFieldTypes.
OwnTagKeys(reg) ==
    UNION {DOMAIN reg[i].customFieldTypes[1] :
              i \in {j \in 1..Len(reg) : reg[j].customFieldTypes # <<>>}}

AllOk(lg) == \A i \in 1..Len(lg) : lg[i].rs.ok
LastFailed(lg) == lg # <<>> /\ ~lg[Len(lg)].rs.ok

\* C3: sendCampaignEmail with a templateKey that is no key of the registry
\* (and a valid tag) raises its error before any remote request is issued.
\* (The remote answering every request, the error can only be the key's.)
C3_UnknownTemplateKeyFailsBeforeAnyRequest ==
    \A p \in Procs :
        (/\ CampaignDone(p)
         /\ op[p].templateKey \notin TemplateKeys(registry)
         /\ op[p].tag \in OwnTagKeys(registry)
         /\ AllOk(log[p]))
        => (out[p].k = "throw" /\ log[p] = <<>>)

\* C4: sendCampaignEmail with a tag that is a key of no template's
\* customFieldTypes fails with 'Invalid tag: <tag>' having issued no remote
\* request.
C4_InvalidTagFailsWithoutRequests ==
    \A p \in Procs :
        (CampaignDone(p) /\ op[p].tag \notin OwnTagKeys(registry))
        => (out[p] = Thrown(Error("Invalid tag: " \o op[p].tag)) /\ log[p] = <<>>)

\* C9: sendCampaignEmail issues segment-create, campaign-create, schedule in
\* that order, each only after the one before succeeded; a failed step is
\* the last request and the operation throws; campaign-create names the
\* segment id the remote returned; a return is {campaignId, segmentId} of
\* the remote's responses.
C9_SegmentCampaignScheduleInOrder ==
    \A p \in Procs :
        op[p].name = "sendCampaignEmail" =>
            LET lg == log[p]
            IN  /\ Len(lg) <= 3
                /\ Len(lg) >= 1 =>
                      /\ lg[1].rq.method = "POST"
                      /\ lg[1].rq.url = "/v3/marketing/segments"
                      /\ lg[1].rq.body.list_ids = <<op[p].listId>>
                /\ Len(lg) >= 2 =>
                      /\ lg[1].rs.ok
                      /\ lg[2].rq.method = "POST"
                      /\ lg[2].rq.url = "/v3/marketing/singlesends"
                      /\ lg[2].rq.body.send_to.segment_ids = <<lg[1].rs.body.id>>
                /\ Len(lg) >= 3 =>
                      /\ lg[2].rs.ok
                      /\ lg[3].rq.method = "POST"
                      /\ lg[3].rq.url = "/v3/marketing/singlesends/"
                                          \o lg[2].rs.body.id \o "/schedule"
                /\ LastFailed(lg) => (pc[p] = "done" /\ out[p].k = "throw")
                /\ out[p].k = "return" =>
                      /\ Len(lg) = 3
                      /\ lg[3].rs.ok
                      /\ out[p].v = [campaignId |-> lg[2].rs.body.id,
                                     segmentId |-> lg[1].rs.body.id]

\* C9 witness: all three steps succeeded, on the remote's second ids.
C9_Witness ==
    /\ CampaignDone("p1")
    /\ Len(log["p1"]) = 3
    /\ out["p1"] = Returned([campaignId |-> "cmp-2", segmentId |-> "seg-2"])

MessagePrefixes == {"", "Failed to create segment: ", "Failed to create campaign: ",
                    "Failed to schedule campaign: "}

IsUpsert(e) == e.rq.method = "PUT" /\ e.rq.url = "/v3/marketing/contacts"
IsSearch(e) == e.rq.method = "POST" /\ e.rq.url = "/v3/marketing/contacts/search"
NumUpserts(lg) == Cardinality({i \in 1..Len(lg) : IsUpsert(lg[i])})
NumSearches(lg) == Cardinality({i \in 1..Len(lg) : IsSearch(lg[i])})

SubscribeOp(p) == op[p].name = "subscribeOrUnsubscribeRecipientFromSenderListByTag"

\* The value the found contact stores for a field: "undefined" when it
\* stores none.
Stored(result, field) ==
    IF result[1].custom_fields = <<>> \/ field \notin DOMAIN result[1].custom_fields[1]
    THEN "undefined"
    ELSE result[1].custom_fields[1][field]

\* The contact is absent, or a given field was not set (subscribing), or a
\* given field was not cleared (unsubscribing).
NotTakenEffect(o, result) ==
    \/ result = <<>>
    \/ /\ result # <<>>
       /\ o.subscribe
       /\ \E f \in DOMAIN o.customFields : Stored(result, f) # o.customFields[f]
    \/ /\ result # <<>>
       /\ ~o.subscribe
       /\ \E f \in DOMAIN o.customFields : Stored(result, f) \notin {"null", "undefined"}

\* C7: after a successful upsert, subscribeOrUnsubscribe... issues exactly
\* one contact search; when the search answers and the contact is absent,
\* or (subscribing) a given field's stored value differs from the given
\* one, or (unsubscribing) a given field's stored value is neither null nor
\* undefined, it throws; it returns only when none of these holds, and then
\* returns the upsert's response body.
C7_OneSearchThenVerified ==
    \A p \in Procs :
        SubscribeOp(p) =>
            LET lg == log[p]
            IN  /\ NumSearches(lg) <= 1
                /\ (pc[p] = "done" /\ lg # <<>> /\ lg[1].rs.ok) =>
                      /\ Len(lg) = 2
                      /\ IsSearch(lg[2])
                      /\ (lg[2].rs.ok /\ NotTakenEffect(op[p], lg[2].rs.body.result))
                            => out[p].k = "throw"
                      /\ out[p].k = "return" =>
                            /\ lg[2].rs.ok
                            /\ ~NotTakenEffect(op[p], lg[2].rs.body.result)
                            /\ out[p].v = lg[1].rs.body

\* C7 witness: an unsubscribe of two fields returned the upsert's body, the
\* contact found storing null for one field and nothing for the other.
C7_Witness ==
    /\ SubscribeOp("p1")
    /\ pc["p1"] = "done"
    /\ ~op["p1"].subscribe
    /\ DOMAIN op["p1"].customFields = FieldKeys
    /\ Len(log["p1"]) = 2
    /\ log["p1"][2].rs.ok
    /\ log["p1"][2].rs.body.result # <<>>
    /\ Stored(log["p1"][2].rs.body.result, "weekly_newsletter") = "null"
    /\ out["p1"] = Returned([job_id |-> "job-2"])

\* C8: an invocation of subscribeOrUnsubscribe... with a valid email issues
\* exactly one upsert, its first request, for that one contact: subscribing,
\* with list_ids = [listId] and the custom fields as given; unsubscribing,
\* with list_ids absent and every key of customFields mapped to null.
C8_SingleUpsertPayload ==
    \A p \in Procs :
        (SubscribeOp(p) /\ IsValidEmail(op[p].email)) =>
            LET lg == log[p]
            IN  /\ NumUpserts(lg) <= 1
                /\ pc[p] = "done" => NumUpserts(lg) = 1
                /\ lg # <<>> =>
                      /\ IsUpsert(lg[1])
                      /\ Len(lg[1].rq.body.contacts) = 1
                      /\ LET c == lg[1].rq.body.contacts[1]
                         IN  /\ c.email = Str(op[p].email)
                             /\ op[p].subscribe =>
                                   /\ c.list_ids = <<<<op[p].listId>>>>
                                   /\ c.custom_fields = op[p].customFields
                             /\ ~op[p].subscribe =>
                                   /\ c.list_ids = <<>>
                                   /\ DOMAIN c.custom_fields = DOMAIN op[p].customFields
                                   /\ \A k \in DOMAIN c.custom_fields :
                                         c.custom_fields[k] = "null"

\* C8 witness: an unsubscribe of two fields has ended after its upsert.
C8_Witness ==
    /\ SubscribeOp("p1")
    /\ pc["p1"] = "done"
    /\ IsValidEmail(op["p1"].email)
    /\ ~op["p1"].subscribe
    /\ DOMAIN op["p1"].customFields = FieldKeys
    /\ NumUpserts(log["p1"]) = 1
    /\ log["p1"][1].rq.body.contacts[1].custom_fields
          = [k \in FieldKeys |-> "null"]

IsSend(e) == e.rq.method = "POST" /\ e.rq.url = "/v3/mail/send"
NumSends(lg) == Cardinality({i \in 1..Len(lg) : IsSend(lg[i])})

SimpleOp(p) == op[p].name = "sendSimpleEmail"

\* The type a template declares for a field, "" when it declares none.
DeclaredType(t, field) ==
    IF t.customFieldTypes # <<>> /\ field \in DOMAIN t.customFieldTypes[1]
    THEN t.customFieldTypes[1][field]
    ELSE ""

\* A list of addresses is acceptable: left out, or an array of valid ones.
ListOk(l) ==
    l = <<>> \/ ~l[1].truthy \/ (l[1].isArray /\ \A i \in 1..Len(l[1].items) : IsValidEmail(l[1].items[i]))

\* Every check of sendSimpleEmail passes on the options o: to and from are
\* valid, cc and bcc acceptable, templateKey a key of the registry, every
\* required field given, no given value of another kind than declared.
AllChecksPass(o, reg) ==
    /\ IsValidEmail(o.to)
    /\ IsValidEmail(o.from)
    /\ ListOk(o.cc)
    /\ ListOk(o.bcc)
    /\ o.templateKey \in TemplateKeys(reg)
    /\ o.dynamicTemplateData # <<>>
    /\ LET t == reg[CHOOSE i \in 1..Len(reg) : reg[i].key = o.templateKey]
           data == o.dynamicTemplateData[1]
       IN  /\ \A i \in 1..Len(t.requiredFields) : t.requiredFields[i] \in DOMAIN data
           /\ \A f \in DOMAIN data :
                 \/ data[f] = "null"
                 \/ DeclaredType(t, f) \notin {"string", "boolean", "array"}
                 \/ data[f] = DeclaredType(t, f)

SendFailures == {Error("Failed to send email: " \o e.message) : e \in RemoteErrors}

\* C5: sendSimpleEmail issues its send request (at most once) only when all
\* checks have passed; when some check does not pass it throws, and whenever
\* it throws an error that is not the send's failure it has issued no send
\* request.
C5_ValidationBeforeSend ==
    \A p \in Procs :
        SimpleOp(p) =>
            /\ NumSends(log[p]) = Len(log[p])
            /\ Len(log[p]) <= 1
            /\ log[p] # <<>> => AllChecksPass(op[p], registry)
            /\ (pc[p] = "done" /\ ~AllChecksPass(op[p], registry)) =>
                  (out[p].k = "throw" /\ out[p].e \notin SendFailures)
            /\ (pc[p] = "done" /\ out[p].k = "throw" /\ out[p].e \notin SendFailures) =>
                  log[p] = <<>>

\* C5 witness: with valid addresses, a known template and all required
\* fields given, the last check (the type of items) failed, and no send
\* request was issued.
C5_Witness ==
    /\ SimpleOp("p1")
    /\ pc["p1"] = "done"
    /\ op["p1"].cc # <<>>
    /\ out["p1"] = Thrown(Error("Invalid type for items: expected array"))
    /\ log["p1"] = <<>>

IsRecipientsFetch(e) ==
    e.rq.method = "GET" /\ e.rq.url \in {"/v3/marketing/contacts?list_ids=" \o l :
                                              l \in ListIds}
NumRecipientsFetches(lg) == Cardinality({i \in 1..Len(lg) : IsRecipientsFetch(lg[i])})

\* The request was answered with HTTP 429.
Is429(e) == ~e.rs.ok /\ e.rs.err.hasResponse /\ e.rs.err.statusCode = RateLimitStatus

\* The requests issued through _withRetry.
IsWrapped(e) == IsListFetch(e) \/ IsListCreate(e) \/ IsRecipientsFetch(e)

\* The last DefaultRetries requests are one request, answered 429 each time.
AttemptsExhausted(lg) ==
    /\ Len(lg) >= DefaultRetries
    /\ \A i \in (Len(lg) - DefaultRetries + 1)..Len(lg) :
          Is429(lg[i]) /\ lg[i].rq = lg[Len(lg)].rq

\* An operation ended throwing right after a request answered 429.
FailedOn429(p) ==
    /\ pc[p] = "done"
    /\ out[p].k = "throw"
    /\ log[p] # <<>>
    /\ Is429(log[p][Len(log[p])])

FieldDone(p) == pc[p] = "done" /\ op[p].name = "ensureCustomFieldExists"

\* C11: whenever ensureCustomFieldExists(name, type) returns, the value
\* returned is a field object whose name is the requested name, whatever the
\* remote holds and whenever another client creates the field, the
\* 'already exists' conflict included.
C11_ReturnsFieldOfRequestedName ==
    \A p \in Procs :
        (FieldDone(p) /\ out[p].k = "return") =>
            out[p].v \in {FieldDefinition(op[p].fieldName, t) : t \in FieldTypes}

\* ensureSenderListExists has returned.
SenderListReturned(p) ==
    /\ pc[p] = "done"
    /\ op[p].name = "ensureSenderListExists"
    /\ out[p].k = "return"

\* C12: whenever ensureSenderListExists(senderId) returns, the returned
\* list is named sender_<senderId>_list, the invocation's last request is a
\* forced roster fetch that succeeded, and the returned list is in the
\* roster that fetch returned.
C12_ReturnedListInLastFetchedRoster ==
    \A p \in Procs :
        SenderListReturned(p) =>
            LET lg == log[p]
                last == lg[Len(lg)]
            IN  /\ out[p].v.name = "sender_" \o op[p].senderId \o "_list"
                /\ lg # <<>>
                /\ IsListFetch(last)
                /\ last.rs.ok
                /\ \E i \in 1..Len(last.rs.body) : last.rs.body[i] = out[p].v

\* C12 witness: the list was created by the invocation, after a
\* rate-limited create, and verified.
C12_Witness ==
    /\ SenderListReturned("p1")
    /\ NumListCreates(log["p1"]) = 2
    /\ out["p1"].v.name = "sender_2_list"
    /\ out["p1"].v.id = InitialNextId

\* The template a sendSimpleEmail names, its templateKey being in the registry.
TemplateOf(o, reg) == reg[CHOOSE i \in 1..Len(reg) : reg[i].key = o.templateKey]

\* The required fields that are no key of the data, in requiredFields order.
Absent(o, reg) ==
    SelectSeq(TemplateOf(o, reg).requiredFields,
              LAMBDA f : f \notin DOMAIN o.dynamicTemplateData[1])

\* Every subsequence of a sequence.
RECURSIVE SubSeqs(_)
SubSeqs(q) ==
    IF q = <<>> THEN {<<>>}
    ELSE LET rest == SubSeqs(Tail(q))
         IN  rest \cup {<<Head(q)>> \o r : r \in rest}

MissingError(names) == Error("Missing required template fields: " \o Join(names, ", "))

\* sendSimpleEmail was called with valid addresses, no cc or bcc, a known
\* template and data that is an object.
CalledOnTemplate(p) ==
    /\ SimpleOp(p)
    /\ IsValidEmail(op[p].to) /\ IsValidEmail(op[p].from)
    /\ op[p].cc = <<>> /\ op[p].bcc = <<>>
    /\ op[p].templateKey \in TemplateKeys(registry)
    /\ op[p].dynamicTemplateData # <<>>

\* C13: with valid addresses and a known template, sendSimpleEmail fails
\* with 'Missing required template fields: <names>' exactly when some
\* required field is no key of dynamicTemplateData, <names> being the absent
\* required fields in requiredFields order joined by ', '.
C13_MissingFieldsListedExactly ==
    \A p \in Procs :
        CalledOnTemplate(p) =>
            LET absent == Absent(op[p], registry)
            IN  /\ absent # <<>> =>
                      (pc[p] = "done" /\ out[p] = Thrown(MissingError(absent))
                         /\ log[p] = <<>>)
                /\ absent = <<>> =>
                      (out[p].k = "throw" =>
                         out[p].e \notin
                            {MissingError(q) :
                                q \in SubSeqs(TemplateOf(op[p], registry).requiredFields)})

\* C13 witness: of the three required fields of new-order-email the first
\* and the last are absent.
C13_Witness ==
    /\ CalledOnTemplate("p1")
    /\ op["p1"].templateKey = "new-order-email"
    /\ DOMAIN op["p1"].dynamicTemplateData[1] = {"user_name", "extra"}
    /\ out["p1"] = Thrown(Error("Missing required template fields: order_id, items"))

CheckedTypes == {"string", "boolean", "array"}

\* The fields given a non-null value of another kind than the template
\* declares for them (string, boolean or array).
Mistyped(o, reg) ==
    {f \in DOMAIN o.dynamicTemplateData[1] :
        /\ DeclaredType(TemplateOf(o, reg), f) \in CheckedTypes
        /\ o.dynamicTemplateData[1][f] # "null"
        /\ o.dynamicTemplateData[1][f] # DeclaredType(TemplateOf(o, reg), f)}

TypeMismatchError(f, type) == Error("Invalid type for " \o f \o ": expected " \o type)

\* C14: with valid addresses, a known template and every required field
\* given, a non-null value of another kind than the declared string, boolean
\* or array makes sendSimpleEmail fail, before the send, with 'Invalid type
\* for <field>: expected <type>' for such a field; with no such value (null
\* given for any field, required ones included) the checks pass and the send
\* is issued.
C14_DeclaredTypesEnforcedNullAccepted ==
    \A p \in Procs :
        (CalledOnTemplate(p) /\ Absent(op[p], registry) = <<>>) =>
            LET bad == Mistyped(op[p], registry)
            IN  /\ bad # {} =>
                      /\ pc[p] = "done"
                      /\ log[p] = <<>>
                      /\ out[p] \in
                            {Thrown(TypeMismatchError(
                                 f, DeclaredType(TemplateOf(op[p], registry), f))) :
                                f \in bad}
                /\ bad = {} => (pc[p] = "simple_send" \/ NumSends(log[p]) = 1)

\* C14 witness: a string given for the array-typed items, null for the
\* required order_id.
C14_Witness ==
    /\ CalledOnTemplate("p1")
    /\ op["p1"].templateKey = "new-order-email"
    /\ DOMAIN op["p1"].dynamicTemplateData[1] = {"order_id", "user_name", "items"}
    /\ op["p1"].dynamicTemplateData[1]["order_id"] = "null"
    /\ op["p1"].dynamicTemplateData[1]["user_name"] = "string"
    /\ op["p1"].dynamicTemplateData[1]["items"] = "string"
    /\ out["p1"] = Thrown(Error("Invalid type for items: expected array"))
    /\ log["p1"] = <<>>

\* The address fails the syntactic check as the claim words it: no "@", or
\* whitespace, or no "." after the "@".
BadAddress(e) ==
    \/ \A i \in 1..Len(e) : e[i] # "@"
    \/ \E i \in 1..Len(e) : e[i] \in {" ", "\t"}
    \/ \A i \in 1..Len(e) : e[i] = "." => \E j \in (i + 1)..Len(e) : e[j] = "@"

\* A supplied cc / bcc that is not an array, or has a bad element.
BadSupplied(l) ==
    /\ l # <<>>
    /\ ~l[1].isArray \/ \E i \in 1..Len(l[1].items) : BadAddress(l[1].items[i])

\* The same, of values that pass `cc &&` (anything but "", 0, false, null).
BadTruthy(l) == BadSupplied(l) /\ l[1].truthy

FailedBeforeSend(p) == pc[p] = "done" /\ out[p].k = "throw" /\ log[p] = <<>>

\* C15 as stated: sendSimpleEmail fails without a send request whenever to,
\* from or an element of a supplied cc / bcc array fails the syntactic
\* check, or a supplied cc / bcc is not an array.
C15_BadAddressOrNonArrayRejected ==
    \A p \in Procs :
        (/\ SimpleOp(p)
         /\ \/ BadAddress(op[p].to) \/ BadAddress(op[p].from)
            \/ BadSupplied(op[p].cc) \/ BadSupplied(op[p].bcc))
        => FailedBeforeSend(p)

\* C15, amended: sendSimpleEmail fails without a send request whenever to,
\* from or an element of a cc / bcc array fails the syntactic check, or a
\* truthy cc / bcc is not an array; a falsy cc / bcc (the empty string) is
\* taken as not supplied: all else passing, the send goes ahead.
C15_BadAddressOrTruthyNonArrayRejected ==
    \A p \in Procs :
        SimpleOp(p) =>
            /\ (\/ BadAddress(op[p].to) \/ BadAddress(op[p].from)
                \/ BadTruthy(op[p].cc) \/ BadTruthy(op[p].bcc))
               => FailedBeforeSend(p)
            /\ (/\ ~BadAddress(op[p].to) /\ ~BadAddress(op[p].from)
                /\ op[p].cc = <<EmptyString>> /\ op[p].bcc = <<>>
                /\ IsValidEmail(op[p].to))
               => (pc[p] = "simple_send" \/ NumSends(log[p]) = 1)

\* C15 witness: valid to and from, a cc array whose second element has no
\* dot in its domain.
C15_Witness ==
    /\ SimpleOp("p1")
    /\ op["p1"].to = <<"a", "@", "a", ".", "a">>
    /\ op["p1"].from = GoodEmail
    /\ op["p1"].cc = <<EmailList(TRUE, <<GoodEmail, NoDotEmail>>)>>
    /\ out["p1"] = Thrown(Error("Invalid CC email list"))
    /\ FailedBeforeSend("p1")

\* buildFieldTypeFromEmailTemplateConfig has returned.
FieldMapReturned(p) ==
    /\ pc[p] = "done"
    /\ op[p].name = "buildFieldTypeFromEmailTemplateConfig"
    /\ out[p].k = "return"

\* The templates of the registry that declare a type for field k.
Declaring(reg, k) ==
    {i \in 1..Len(reg) :
        reg[i].customFieldTypes # <<>> /\ k \in DOMAIN reg[i].customFieldTypes[1]}

\* C16 as stated: for a field declared by several templates the map holds
\* the type declared by the template registered first.
C16_FirstRegisteredWins ==
    \A p \in Procs :
        FieldMapReturned(p) =>
            \A k \in DOMAIN out[p].v.types :
                LET d == Declaring(registry, k)
                    first == CHOOSE i \in d : \A j \in d : i <= j
                IN  out[p].v.types[k] = registry[first].customFieldTypes[1][k]

\* C16, amended: for a field declared by several templates the map holds
\* the type declared by the template registered last.
C16_LastRegisteredWins ==
    \A p \in Procs :
        FieldMapReturned(p) =>
            \A k \in DOMAIN out[p].v.types :
                LET d == Declaring(registry, k)
                    last == CHOOSE i \in d : \A j \in d : j <= i
                IN  d # {} /\ out[p].v.types[k] = registry[last].customFieldTypes[1][k]

\* C16 witness: "status" is declared string by the first template and
\* boolean by the second; the map says boolean.
C16_Witness ==
    /\ FieldMapReturned("p1")
    /\ registry = <<OrderStatus, AccountStatus>>
    /\ out["p1"].v.types["status"] = "boolean"

\* The completed calls after which no resetInternalCache completed.
SinceReset ==
    {i \in 1..Len(hist) :
        \A j \in i..Len(hist) : hist[j].op.name # "resetInternalCache"}

\* C17: once buildFieldTypeFromEmailTemplateConfig has returned, every
\* later call with no resetInternalCache in between returns the same
\* mapping object, holding the same types, and no new mapping is built; the
\* keys of a returned mapping are the customFieldTypes keys of all templates.
C17_CachedMappingReturned ==
    \A p \in Procs :
        FieldMapReturned(p) =>
            /\ DOMAIN out[p].v.types = OwnTagKeys(registry)
            /\ \A i \in SinceReset :
                  (/\ hist[i].op.name = "buildFieldTypeFromEmailTemplateConfig"
                   /\ hist[i].out.k = "return")
                  => (out[p] = hist[i].out /\ built = hist[i].out.v.id)

\* C17 witness: the third call in a row returns the mapping the first
\* built from the shipped registry.
C17_Witness ==
    /\ FieldMapReturned("p1")
    /\ registry = EmailTemplateMap
    /\ Len(hist) = 2
    /\ SinceReset = {1, 2}
    /\ hist[1].out = out["p1"]
    /\ out["p1"].v.id = 1
    /\ DOMAIN out["p1"].v.types = {"order_id", "user_name", "items", "reset_link",
                                    "user_email", "creator_name", "message_body"}

\* The templates of the registry without customFieldTypes.
Untyped(reg) == {i \in 1..Len(reg) : reg[i].customFieldTypes = <<>>}

\* C18: when a template of the registry lacks customFieldTypes, every call
\* of buildFieldTypeFromEmailTemplateConfig fails with 'Missing
\* customFieldTypes in template config for <templateId>' naming such a
\* template's id, and the field-map cache stays unset, so the next call
\* fails the same way.
C18_MissingTypesFailsEveryCall ==
    \A p \in Procs :
        (/\ pc[p] = "done"
         /\ op[p].name = "buildFieldTypeFromEmailTemplateConfig"
         /\ Untyped(registry) # {})
        => /\ out[p] \in
                 {Thrown(Error("Missing customFieldTypes in template config for "
                               \o registry[i].templateId)) : i \in Untyped(registry)}
           /\ fieldMapCache = <<>>

\* C18 witness: the second call in a row fails as the first did, the
\* template without customFieldTypes being the last of three.
C18_Witness ==
    /\ pc["p1"] = "done"
    /\ op["p1"].name = "buildFieldTypeFromEmailTemplateConfig"
    /\ registry = <<OrderStatus, AccountStatus, PlainNotice>>
    /\ Len(hist) = 1
    /\ hist[1].op = op["p1"]
    /\ hist[1].out = out["p1"]
    /\ out["p1"] = Thrown(Error("Missing customFieldTypes in template config for "
                                 \o "d-plainnotice0001234567890abcd"))

\* The step is a call by p of fetchAllSenderLists() without force.
UnforcedFetchCalled(p) ==
    /\ pc[p] = "idle"
    /\ pc'[p] # "idle"
    /\ op'[p].name = "fetchAllSenderLists"
    /\ ~op'[p].force

\* The step is a call by p of resetInternalCache().
ResetCalled(p) == pc[p] = "idle" /\ op'[p].name = "resetInternalCache"

\* What a step of the cache operations does to the caches.
CacheStep ==
    \A p \in Procs :
        /\ (UnforcedFetchCalled(p) /\ listCache # <<>>) =>
              /\ pc'[p] = "done"
              /\ out'[p] = Returned(listCache[1])
              /\ log'[p] = <<>>
              /\ listCache' = listCache
        /\ (UnforcedFetchCalled(p) /\ listCache = <<>>) => pc'[p] = "fetch_lists"
        /\ ResetCalled(p) =>
              (templateCache' = <<>> /\ fieldMapCache' = <<>> /\ listCache' = <<>>)

\* An unforced fetchAllSenderLists() called first after a reset has ended.
FetchedAfterReset(p) ==
    /\ pc[p] = "done"
    /\ op[p].name = "fetchAllSenderLists"
    /\ ~op[p].force
    /\ hist # <<>>
    /\ hist[Len(hist)].op.name = "resetInternalCache"

\* C19: an unforced fetchAllSenderLists() called while listCache is set
\* issues no request and returns the cached roster, leaving the cache as it
\* is; resetInternalCache sets the three caches to null; the first unforced
\* fetch after a reset issues a request, and when it returns, returns the
\* roster the remote answered, stored in listCache.
C19_ListCacheCoherentWithReset ==
    /\ [][CacheStep]_vars
    /\ [](\A p \in Procs :
            FetchedAfterReset(p) =>
                /\ log[p] # <<>>
                /\ \A i \in 1..Len(log[p]) : IsListFetch(log[p][i])
                /\ out[p].k = "return" =>
                      /\ log[p][Len(log[p])].rs = Ok(out[p].v)
                      /\ listCache = <<out[p].v>>)

\* C19 witness: an unforced fetch after a forced one (answered 429, then a
\* roster) returns what the forced one fetched, with no request.
C19_Witness ==
    /\ Len(hist) = 1
    /\ hist[1].op = [name |-> "fetchAllSenderLists", force |-> TRUE]
    /\ hist[1].out.k = "return"
    /\ op["p1"] = [name |-> "fetchAllSenderLists", force |-> FALSE]
    /\ pc["p1"] = "done"
    /\ log["p1"] = <<>>
    /\ out["p1"] = hist[1].out
    /\ listCache = <<out["p1"].v>>
    /\ Len(hist[1].log) = 2

\* C20: with valid to and from, a known template, every required field
\* given and no mistyped value, sendSimpleEmail issues exactly one send
\* request, carrying the addresses, the template's templateId and the data
\* as given; it returns the remote's response as it is, and when the send
\* fails it throws 'Failed to send email: <the error's message>'.
C20_OneSendCarriesTemplateAndData ==
    \A p \in Procs :
        (/\ CalledOnTemplate(p)
         /\ Absent(op[p], registry) = <<>>
         /\ Mistyped(op[p], registry) = {})
        => /\ pc[p] \in {"simple_send", "done"}
           /\ pc[p] = "simple_send" => log[p] = <<>>
           /\ pc[p] = "done" =>
                 /\ Len(log[p]) = 1
                 /\ IsSend(log[p][1])
                 /\ log[p][1].rq.body =
                       [to |-> Str(op[p].to), from |-> Str(op[p].from),
                        templateId |-> TemplateOf(op[p], registry).templateId,
                        dynamicTemplateData |-> op[p].dynamicTemplateData,
                        cc |-> op[p].cc, bcc |-> op[p].bcc]
                 /\ log[p][1].rs.ok => out[p] = Returned(log[p][1].rs.body)
                 /\ ~log[p][1].rs.ok =>
                       out[p] = Thrown(Error("Failed to send email: "
                                             \o log[p][1].rs.err.message))

\* C20 witness: password-reset sent and accepted with status 202.
C20_Witness ==
    /\ CalledOnTemplate("p1")
    /\ op["p1"].templateKey = "password-reset"
    /\ pc["p1"] = "done"
    /\ out["p1"] = Returned([statusCode |-> "202"])
    /\ Len(log["p1"]) = 1
    /\ log["p1"][1].rq.body.templateId = "d-abcdef1234567890abcdef1234567890"

\* _withRetry itself is the operation.
WithRetryOp(p) == op[p].name = "_withRetry"

\* C21: for _withRetry with retries >= 1, fn is invoked again after a
\* failure iff the failure is an HTTP 429 and the attempt number is below
\* retries; any other failure, or a 429 on attempt number retries, is
\* rethrown as it is with no further invocation; the first successful
\* invocation's result is returned; fn is invoked at least once and at most
\* retries times.
C21_RetriedOnlyOn429BelowRetries ==
    \A p \in Procs :
        WithRetryOp(p) =>
            LET lg == log[p]
                n == Len(lg)
            IN  /\ n <= op[p].retries
                /\ \A i \in 1..(n - 1) : Is429(lg[i])
                /\ pc[p] = "done" => n >= 1
                /\ n = 0 => pc[p] = "retry_fn"
                /\ n >= 1 =>
                      IF lg[n].rs.ok
                      THEN pc[p] = "done" /\ out[p] = Returned(lg[n].rs.body)
                      ELSE IF Is429(lg[n]) /\ n < op[p].retries
                      THEN /\ pc[p] = "retry_fn"
                           /\ Top(retry[p]).attempt = n + 1
                      ELSE pc[p] = "done" /\ out[p] = Thrown(lg[n].rs.err)

\* C21 witness: with retries 3, fn answered 429 twice and then resolved; its
\* result is returned after three invocations.
C21_Witness ==
    /\ WithRetryOp("p1")
    /\ op["p1"].retries = 3
    /\ pc["p1"] = "done"
    /\ Len(log["p1"]) = 3
    /\ Is429(log["p1"][1]) /\ Is429(log["p1"][2])
    /\ out["p1"] = Returned("r2")

\* The milliseconds of the timers that elapsed for the given reason, in order.
WaitsBy(p, by) ==
    LET ws == SelectSeq(waits[p], LAMBDA w : w.by = by)
    IN  [i \in 1..Len(ws) |-> ws[i].ms]

IsPrefix(a, b) == Len(a) <= Len(b) /\ a = SubSeq(b, 1, Len(a))

FirstFetched(p) ==
    /\ op[p].name \in {"ensureListExistsByName", "ensureSenderListExists"}
    /\ loc[p].lists # <<>>

\* The remote accepted a create request of p.
CreateAccepted(p) ==
    \E i \in 1..Len(log[p]) : IsListCreate(log[p][i]) /\ log[p][i].rs.ok

\* The lists of that name the remote holds, settled or not.
Held(listName) ==
    {l \in {(roster \o pending)[i] : i \in 1..Len(roster \o pending)} :
         l.name = listName}

\* C23: nothing serialises the query-then-create step of concurrent
\* ensureListExistsByName invocations: each one goes on to its create
\* request exactly when its own first fetch lacked the name, whatever the
\* other invocation has fetched, sent or had accepted meanwhile; so two
\* create requests for one name can both be sent (the witness).
C23_CreateDecidedOnOwnFetchOnly ==
    \A p \in Procs :
        FirstFetched(p) =>
            IF HasName(loc[p].lists[1], op[p].listName)
            THEN NumListCreates(log[p]) = 0 /\ pc[p] = "done"
            ELSE \/ pc[p] = "elbn_create"
                 \/ NumListCreates(log[p]) >= 1

\* C23 witness: both invocations, for the same name, saw the list missing
\* and each had a create request accepted: the remote holds two lists of
\* that name.
C23_Witness ==
    /\ op["p1"].name = "ensureListExistsByName"
    /\ op["p2"].name = "ensureListExistsByName"
    /\ op["p1"].listName = op["p2"].listName
    /\ CreateAccepted("p1") /\ CreateAccepted("p2")
    /\ Cardinality(Held(op["p1"].listName)) = 2

\* The rosters the successful list fetches of a log returned, in order.
Fetched(lg) ==
    LET oks == SelectSeq(lg, LAMBDA e : IsListFetch(e) /\ e.rs.ok)
    IN  [i \in 1..Len(oks) |-> oks[i].rs.body]

\* ensureListExistsByName went as far as its re-query after the create.
Requeried(p) == op[p].name = "ensureListExistsByName" /\ loc[p].newLists # <<>>

CreationFailedAfterRetry(listName) ==
    Error("List creation failed after retry: " \o listName)

\* C24: ensureListExistsByName decides on the roster its first forced fetch
\* returns, whatever listCache held on entry: a request is sent for that
\* fetch in every case, a create request is issued iff that roster lacks the
\* name, an accepted create is followed by another fetch request, and the
\* operation fails with 'List creation failed after retry: <listName>'
\* exactly when the re-queried roster still lacks the name.
C24_DecidesOnFreshRosterOnly ==
    \A p \in Procs :
        op[p].name = "ensureListExistsByName" =>
            LET lg == log[p]
                n == op[p].listName
            IN  /\ pc[p] = "done" => (lg # <<>> /\ IsListFetch(lg[1]))
                /\ loc[p].lists = <<>> => NumListCreates(lg) = 0
                /\ loc[p].lists # <<>> =>
                      /\ loc[p].lists[1] = Fetched(lg)[1]
                      /\ IF HasName(loc[p].lists[1], n)
                         THEN NumListCreates(lg) = 0
                         ELSE pc[p] = "elbn_create" \/ NumListCreates(lg) >= 1
                /\ \A i \in 1..Len(lg) :
                      (IsListCreate(lg[i]) /\ lg[i].rs.ok) =>
                          /\ pc[p] \in {"elbn_fetch2", "done"}
                          /\ i < Len(lg) => IsListFetch(lg[i + 1])
                          /\ pc[p] = "done" => i < Len(lg)
                /\ Requeried(p) =>
                      /\ loc[p].newLists[1] = Fetched(lg)[2]
                      /\ pc[p] = "done"
                      /\ IF HasName(loc[p].newLists[1], n)
                         THEN out[p].k = "return" /\ out[p].v.name = n
                         ELSE out[p] = Thrown(CreationFailedAfterRetry(n))
                /\ (pc[p] = "done" /\ out[p] = Thrown(CreationFailedAfterRetry(n)))
                      => (Requeried(p) /\ ~HasName(loc[p].newLists[1], n))

\* C24 witness: the second of two calls started with a cache that showed
\* the list (the first call's last fetch), its own first fetch did not show
\* it, it sent a create request, and its re-query missed the list again.
C24_Witness ==
    /\ Len(hist) = 1
    /\ op["p1"].name = "ensureListExistsByName"
    /\ hist[1].op = op["p1"]
    /\ Fetched(hist[1].log) # <<>>
    /\ HasName(Fetched(hist[1].log)[Len(Fetched(hist[1].log))], op["p1"].listName)
    /\ loc["p1"].lists # <<>>
    /\ ~HasName(loc["p1"].lists[1], op["p1"].listName)
    /\ NumListCreates(log["p1"]) >= 1
    /\ out["p1"] = Thrown(CreationFailedAfterRetry(op["p1"].listName))

SenderOp(p) == op[p].name = "ensureSenderListExists"

\* C25: every invocation of ensureSenderListExists ends (returns or
\* throws) when each request is answered in the end, whatever the answers;
\* it issues at most 24 requests: at most 3 + 3 + 3 inside
\* ensureListExistsByName and at most 5 * 3 in the verification.
C25_TerminatesWithinTwentyFourRequests ==
    /\ [](\A p \in Procs :
            SenderOp(p) =>
                /\ Len(log[p]) <= 24
                /\ NumListCreates(log[p]) <= 3
                /\ loc[p].list = <<>> => Len(log[p]) <= 3 + 3 + 3
                /\ (loc[p].list # <<>> /\ NumListCreates(log[p]) = 0)
                      => Len(log[p]) <= 3 + 5 * 3)
    /\ \A p \in {"p1"} : SenderOp(p) ~> pc[p] = "done"

\* C25 witness: an invocation that ended after 24 requests.
C25_Witness ==
    /\ SenderOp("p1")
    /\ pc["p1"] = "done"
    /\ Len(log["p1"]) = 24

GenericUpdateFailure == Error("Failed to update recipient fields")

\* The operation threw after both requests were answered: a check of the
\* verification failed.
VerificationFailed(p) ==
    /\ SubscribeOp(p)
    /\ pc[p] = "done"
    /\ out[p].k = "throw"
    /\ Len(log[p]) = 2
    /\ log[p][2].rs.ok

====
